---- MODULE Spec2Model ----
(***************************************************************************)
(* Badminton-Game: the fixed-step match controller (core/Game.ts), the     *)
(* Player and Ball entities and the host -> guest snapshot protocol.       *)
(*                                                                         *)
(* Lengths and velocities are fixed-point numbers in hundredths of a       *)
(* simulation unit: the source computes in IEEE doubles.                   *)
(* animationTime is counted in steps of LEG_ANIMATION_SPEED.               *)
(***************************************************************************)
EXTENDS Integers, Sequences, FiniteSets, TLC

\* ------------------------------------------------------------------ bounds
MaxPlayerTicks == 3
MaxBallTicks == 8
MaxGameTicks == 3

\* --------------------------------------------------------------- constants
BOUNDARY_LEFT == 0
BOUNDARY_RIGHT == 80000
BOUNDARY_TOP == 0
GRAVITY == 65
BALL_GRAVITY == 40
GROUND_Y == 41000
BALL_GROUND_Y == 45000
NET_X == 40000
NET_HEIGHT == 10000
NET_BASE_Y == 41000
SERVICE_LINE_LEFT == 35000
SERVICE_LINE_RIGHT == 45000
PLAYER_SPEED == 500
JUMP_FORCE == 1520
PLAYER1_X == 17000
PLAYER2_X == 63000
BALL_RADIUS == 900
BALL_INITIAL_Y == 20000
SWING_UPWARD_DURATION == 16
SWING_DOWNWARD_DURATION == 18
SERVING_ANIMATION_DURATION == 10
WINNING_SCORE == 10
LEFT_BOUNDARY == 3000
RIGHT_BOUNDARY == 77000
NetCollisionWidth == 1200
NetWidth == 1500
ServeVx == 1100
ServeVy == -1800
UpwardHitSpeed == 1768
BasePower == 2500
BallHandDx == 2702
BallHandDy == 4340
NeckOffset == 6400
BotServeDelay == 60

\* enums (utils/Constants.ts, entities/Player.ts)
LEFT == 0
RIGHT == 1
UPWARD == 0
DOWNWARD == 1

\* --------------------------------------------------------------- helpers
Abs(v) == IF v < 0 THEN -v ELSE v

Sign(v) == IF v > 0 THEN 1 ELSE IF v < 0 THEN -1 ELSE 0

\* v * num / den on doubles, truncated toward zero on the fixed-point grid
MulDiv(v, num, den) == IF v >= 0 THEN (v * num) \div den ELSE -(((-v) * num) \div den)

Count(seq, e) == Cardinality({i \in DOMAIN seq : seq[i] = e})

\* ----------------------------------------------------------------- Input
Input == [left : BOOLEAN, right : BOOLEAN, jump : BOOLEAN,
          hit : BOOLEAN, upward : BOOLEAN, downward : BOOLEAN]

NoInput == [left |-> FALSE, right |-> FALSE, jump |-> FALSE,
            hit |-> FALSE, upward |-> FALSE, downward |-> FALSE]

\* ---------------------------------------------------------------- Player
NewPlayer(x, side) ==
  [x |-> x, y |-> GROUND_Y, vx |-> 0, vy |-> 0, side |-> side,
   animationTime |-> 0, isSwinging |-> FALSE, swingProgress |-> 0,
   hitCooldown |-> 0, isOnGround |-> TRUE, isServingMode |-> FALSE,
   isServingAnimation |-> FALSE, servingProgress |-> 0, onServeReady |-> 0,
   swingType |-> UPWARD, hasHitInThisSwing |-> FALSE,
   hasHitInReturn |-> FALSE, wasOnGround |-> TRUE]

SwingDuration(swingType) ==
  IF swingType = UPWARD THEN SWING_UPWARD_DURATION ELSE SWING_DOWNWARD_DURATION

\* horizontal intent -> velocity
MoveVelocity(input) ==
  IF input.left THEN -PLAYER_SPEED ELSE IF input.right THEN PLAYER_SPEED ELSE 0

\* the player cannot cross the net
NetClamp(side, x, vx) ==
  IF side = LEFT
  THEN IF x > NET_X - NetCollisionWidth
       THEN [x |-> NET_X - NetCollisionWidth, vx |-> 0] ELSE [x |-> x, vx |-> vx]
  ELSE IF x < NET_X + NetCollisionWidth
       THEN [x |-> NET_X + NetCollisionWidth, vx |-> 0] ELSE [x |-> x, vx |-> vx]

\* only the right court boundary is enforced
BoundaryClampNoLeft(x) == IF x > RIGHT_BOUNDARY THEN RIGHT_BOUNDARY ELSE x

BoundaryClamp(x) ==
  LET x1 == IF x < LEFT_BOUNDARY THEN LEFT_BOUNDARY ELSE x
  IN  IF x1 > RIGHT_BOUNDARY THEN RIGHT_BOUNDARY ELSE x1

\* only the LEFT player is held at its service line
ServiceLineClampLeftOnly(side, x, vx) ==
  IF side = LEFT /\ x > SERVICE_LINE_LEFT
  THEN [x |-> SERVICE_LINE_LEFT, vx |-> 0] ELSE [x |-> x, vx |-> vx]

ServiceLineClamp(side, x, vx) ==
  IF side = LEFT
  THEN IF x > SERVICE_LINE_LEFT
       THEN [x |-> SERVICE_LINE_LEFT, vx |-> 0] ELSE [x |-> x, vx |-> vx]
  ELSE IF x < SERVICE_LINE_RIGHT
       THEN [x |-> SERVICE_LINE_RIGHT, vx |-> 0] ELSE [x |-> x, vx |-> vx]

\* a swing key starts a swing whatever the cooldown
CanStartSwingAlways(p, cooldown) == TRUE

\* may a swing start in this update? (the only condition the code tests)
CanStartSwing(p, cooldown) == cooldown = 0

\* the jump key works in the air too
JumpsInAir(input, isOnGround) == input.jump

\* does the player leave the ground in this update?
Jumps(input, isOnGround) == input.jump /\ isOnGround

\* Player.update: returns the player, the sounds played and whether the
\* onServeReady callback ran (its direction, 0 when it did not run)
PlayerUpdate(p, input) ==
  LET vx0 == MoveVelocity(input)
      n1 == NetClamp(p.side, p.x + vx0, vx0)
      x2 == BoundaryClamp(n1.x)
      s3 == ServiceLineClamp(p.side, x2, n1.vx)
      jumps == Jumps(input, p.isOnGround)
      vy1 == IF jumps THEN -JUMP_FORCE ELSE p.vy
      og1 == IF jumps THEN FALSE ELSE p.isOnGround
      vy2 == vy1 + GRAVITY
      y2 == p.y + vy2
      lands == ~og1 /\ y2 >= GROUND_Y
      yN == IF og1 THEN p.y ELSE IF lands THEN GROUND_Y ELSE y2
      vyN == IF og1 THEN vy1 ELSE IF lands THEN 0 ELSE vy2
      ogN == IF og1 THEN TRUE ELSE lands
      landSound == lands /\ ~p.wasOnGround
      wogN == IF og1 THEN p.wasOnGround ELSE IF lands THEN TRUE ELSE FALSE
      startUp == input.upward /\ CanStartSwing(p, p.hitCooldown)
      cd1 == IF startUp THEN SWING_UPWARD_DURATION ELSE p.hitCooldown
      startDown == input.downward /\ CanStartSwing(p, cd1)
      cd2 == IF startDown THEN SWING_DOWNWARD_DURATION ELSE cd1
      started == startUp \/ startDown
      type1 == IF startDown THEN DOWNWARD ELSE IF startUp THEN UPWARD ELSE p.swingType
      sw1 == IF started THEN TRUE ELSE p.isSwinging
      pr1 == IF started THEN 0 ELSE p.swingProgress
      hit1 == IF started THEN FALSE ELSE p.hasHitInThisSwing
      ret1 == IF started THEN FALSE ELSE p.hasHitInReturn
      pr2 == IF sw1 THEN pr1 + 1 ELSE pr1
      ends == sw1 /\ pr2 >= SwingDuration(type1)
      swN == IF ends THEN FALSE ELSE sw1
      prN == IF ends THEN 0 ELSE pr2
      retN == IF ends THEN FALSE ELSE ret1
      cdN == IF cd2 > 0 THEN cd2 - 1 ELSE cd2
      sp1 == IF p.isServingAnimation THEN p.servingProgress + 1 ELSE p.servingProgress
      fires == p.isServingAnimation /\ sp1 = SERVING_ANIMATION_DURATION \div 2
                 /\ p.onServeReady # 0
      animEnds == p.isServingAnimation /\ sp1 >= SERVING_ANIMATION_DURATION
      moving == Abs(s3.vx) > 10
  IN  [p |-> [x |-> s3.x, y |-> yN, vx |-> s3.vx, vy |-> vyN, side |-> p.side,
              animationTime |-> IF moving THEN p.animationTime + 1 ELSE p.animationTime,
              isSwinging |-> swN, swingProgress |-> prN, hitCooldown |-> cdN,
              isOnGround |-> ogN,
              isServingMode |-> IF animEnds THEN FALSE ELSE p.isServingMode,
              isServingAnimation |-> IF animEnds THEN FALSE ELSE p.isServingAnimation,
              servingProgress |-> IF animEnds THEN 0 ELSE sp1,
              onServeReady |-> IF animEnds THEN 0 ELSE p.onServeReady,
              swingType |-> type1, hasHitInThisSwing |-> hit1,
              hasHitInReturn |-> retN, wasOnGround |-> wogN],
       snd |-> IF landSound THEN <<"land">> ELSE <<>>,
       started |-> started,
       fire |-> IF fires THEN p.onServeReady ELSE 0]

IsInReturnPhase(p) ==
  IF ~p.isSwinging THEN FALSE ELSE p.swingProgress * 2 > SwingDuration(p.swingType)

GetBallHandPosition(p) ==
  [x |-> p.x + (IF p.side = LEFT THEN BallHandDx ELSE -BallHandDx),
   y |-> p.y - BallHandDy]

\* 'low' (ball below the neck) -> UPWARD, 'high' -> DOWNWARD
SetSwingType(p, ballY) ==
  [p EXCEPT !.swingType = IF ballY > p.y - NeckOffset THEN UPWARD ELSE DOWNWARD]

\* ------------------------------------------------------------------ Ball
NewBall(x, y) == [x |-> x, y |-> y, vx |-> 0, vy |-> 0, wasInAir |-> TRUE]

BallIsOnGround(b) == b.y >= BALL_GROUND_Y

\* left, right and top world bounds: [x, y, vx, vy, snd]
BallBoundaries(x, y, vx, vy) ==
  LET hitL == x - BALL_RADIUS < BOUNDARY_LEFT
      xa == IF hitL THEN BOUNDARY_LEFT + BALL_RADIUS ELSE x
      vxa == IF hitL THEN MulDiv(Abs(vx), 5, 10) ELSE vx
      hitR == xa + BALL_RADIUS > BOUNDARY_RIGHT
      xb == IF hitR THEN BOUNDARY_RIGHT - BALL_RADIUS ELSE xa
      vxb == IF hitR THEN -MulDiv(Abs(vxa), 5, 10) ELSE vxa
      hitT == y - BALL_RADIUS < BOUNDARY_TOP
      yb == IF hitT THEN BOUNDARY_TOP + BALL_RADIUS ELSE y
      vyb == IF hitT THEN MulDiv(Abs(vy), 5, 10) ELSE vy
  IN  [x |-> xb, y |-> yb, vx |-> vxb, vy |-> vyb,
       snd |-> (IF hitL THEN <<"wall">> ELSE <<>>) \o (IF hitR THEN <<"wall">> ELSE <<>>)
                 \o (IF hitT THEN <<"wall">> ELSE <<>>)]

CheckNetCollision(x, y, vx, vy) ==
  LET netTopY == NET_BASE_Y - NET_HEIGHT
      half == NetWidth \div 2
      inHeight == y - BALL_RADIUS <= NET_BASE_Y /\ y + BALL_RADIUS >= netTopY
      fromLeft == inHeight /\ vx > 0 /\ x + BALL_RADIUS >= NET_X - half
                   /\ x - BALL_RADIUS <= NET_X
      fromRight == inHeight /\ ~fromLeft /\ vx < 0 /\ x - BALL_RADIUS <= NET_X + half
                   /\ x + BALL_RADIUS >= NET_X
      side == fromLeft \/ fromRight
      xa == IF fromLeft THEN NET_X - half - BALL_RADIUS
            ELSE IF fromRight THEN NET_X + half + BALL_RADIUS ELSE x
      vxa == IF side THEN -MulDiv(vx, 6, 10) ELSE vx
      vya == IF side THEN MulDiv(vy, 8, 10) ELSE vy
      top == vya > 0 /\ Abs(xa - NET_X) <= half + BALL_RADIUS
              /\ y - BALL_RADIUS <= netTopY /\ y + BALL_RADIUS >= netTopY - 500
  IN  [x |-> xa, y |-> IF top THEN netTopY - BALL_RADIUS ELSE y,
       vx |-> IF top THEN MulDiv(vxa, 7, 10) ELSE vxa,
       vy |-> IF top THEN -MulDiv(vya, 5, 10) ELSE vya,
       snd |-> (IF side THEN <<"net">> ELSE <<>>) \o (IF top THEN <<"net">> ELSE <<>>)]

\* the flag is never cleared: the trigger fires on every update on the ground
GroundEdgeNoClear(onGroundNow, wasInAir) ==
  [fire |-> onGroundNow /\ wasInAir, wasInAir |-> TRUE]

\* the ground-contact edge: does the GROUND trigger fire, and the new flag
GroundEdge(onGroundNow, wasInAir) ==
  [fire |-> onGroundNow /\ wasInAir,
   wasInAir |-> IF onGroundNow /\ wasInAir THEN FALSE
                ELSE IF ~onGroundNow THEN TRUE ELSE wasInAir]

\* Ball.update: returns the ball and the sounds played
BallUpdate(b) ==
  LET vy1 == MulDiv(b.vy + BALL_GRAVITY, 98, 100)
      vx1 == MulDiv(b.vx, 98, 100)
      w == BallBoundaries(b.x + vx1, b.y + vy1, vx1, vy1)
      n == CheckNetCollision(w.x, w.y, w.vx, w.vy)
      g == GroundEdge(n.y >= BALL_GROUND_Y, b.wasInAir)
  IN  [b |-> [x |-> n.x, y |-> n.y, vx |-> n.vx, vy |-> n.vy, wasInAir |-> g.wasInAir],
       snd |-> w.snd \o n.snd \o (IF g.fire THEN <<"ground">> ELSE <<>>)]

\* cos/sin(hitAngle) * basePower for a DOWNWARD swing of the LEFT player at
\* swingProgress 0..18 (racketAngle = swingAngle + pi/2, hitAngle = racketAngle - 0.424);
\* the RIGHT player's values are the horizontal mirror image
DownwardHitVx ==
  <<884, 1182, 1459, 1712, 1935, 2125, 2279, 2393, 2467, 2499,
    2488, 2434, 2339, 2203, 2030, 1822, 1583, 1317, 1029>>

DownwardHitVy ==
  <<-2339, -2203, -2030, -1822, -1583, -1317, -1029, -722, -404, -78,
    249, 571, 884, 1182, 1459, 1712, 1935, 2125, 2279>>

BallHitByAngle(b, direction, swingProgress, isUpward) ==
  [b EXCEPT !.vx = direction * DownwardHitVx[swingProgress + 1],
            !.vy = DownwardHitVy[swingProgress + 1]]

\* Ball.hit; the racket angle is the one of the hitter's swingProgress
BallHit(b, direction, swingProgress, isUpward) ==
  IF isUpward
  THEN [b EXCEPT !.vx = direction * UpwardHitSpeed, !.vy = -UpwardHitSpeed]
  ELSE [b EXCEPT !.vx = direction * DownwardHitVx[swingProgress + 1],
                 !.vy = DownwardHitVy[swingProgress + 1]]

BallServeInPlace(b, x, y, direction) ==
  [b EXCEPT !.vx = ServeVx * direction, !.vy = ServeVy]

BallServe(b, x, y, direction) ==
  [b EXCEPT !.x = x, !.y = y, !.vx = ServeVx * direction, !.vy = ServeVy]

BallReset(b, x, y) == [b EXCEPT !.x = x, !.y = y, !.vx = 0, !.vy = 0]

\* ------------------------------------------------------------------ Game
\* time unit: 1/3000 s, so that the fixed step, the frame clamp, one
\* millisecond and the broadcast interval are whole numbers
FixedTimeStep == 50
MaxFrameDelta == 300
Millisecond == 3
BROADCAST_INTERVAL == 100

\* Date.now(): whole milliseconds
DateNow(t) == (t \div Millisecond) * Millisecond

\* the Game object after its constructor
NewGame ==
  [state |-> "LOADING", gameMode |-> "SINGLE_PLAYER", isOnlineHost |-> FALSE,
   lastBroadcastTime |-> 0, leftScore |-> 0, rightScore |-> 0,
   servingSide |-> LEFT, isServing |-> TRUE, waitingForServe |-> FALSE,
   serveTimer |-> 0, accumulator |-> 0,
   player1 |-> NewPlayer(PLAYER1_X, LEFT), player2 |-> NewPlayer(PLAYER2_X, RIGHT),
   ball |-> NewBall(NET_X, BALL_INITIAL_Y),
   player1Input |-> NoInput, player2Input |-> NoInput,
   botLastActionTime |-> 0]

\* what an update did (NoEvents: nothing).
\* start_i: Player.update started a swing; anim_i, cool_i: isServingAnimation
\* and hitCooldown when Player.update was entered; fwd_i, ret_i: checkHit applied
\* an impulse in the forward / return phase; onGround, ballX: what
\* checkScoring saw; scored: the side it awarded the point to
NoEvents ==
  [start1 |-> FALSE, start2 |-> FALSE, anim1 |-> FALSE, anim2 |-> FALSE,
   cool1 |-> 0, cool2 |-> 0, fwd1 |-> FALSE, ret1 |-> FALSE,
   fwd2 |-> FALSE, ret2 |-> FALSE, onGround |-> FALSE, ballX |-> 0,
   scored |-> {}, serveDir |-> 0, ballUpdated |-> FALSE, physics |-> FALSE]

ResetMatch(g) ==
  [g EXCEPT !.leftScore = 0, !.rightScore = 0, !.servingSide = LEFT,
            !.isServing = TRUE, !.waitingForServe = FALSE,
            !.player1 = [g.player1 EXCEPT !.x = PLAYER1_X, !.y = GROUND_Y, !.vx = 0,
                                          !.vy = 0, !.isSwinging = FALSE],
            !.player2 = [g.player2 EXCEPT !.x = PLAYER2_X, !.y = GROUND_Y, !.vx = 0,
                                          !.vy = 0, !.isSwinging = FALSE],
            !.ball = BallReset(g.ball, NET_X, BALL_INITIAL_Y),
            !.player1Input = NoInput, !.player2Input = NoInput]

\* menu choice of a local mode
SetGameMode(g, mode) == [ResetMatch([g EXCEPT !.gameMode = mode]) EXCEPT !.state = "PLAYING"]

\* lobby callback onGameStart(isHost)
StartOnlineGame(g, isHost) ==
  [ResetMatch([g EXCEPT !.gameMode = "ONLINE", !.isOnlineHost = isHost])
     EXCEPT !.state = "PLAYING"]

PrepareServe(g) ==
  [g EXCEPT !.isServing = TRUE, !.waitingForServe = FALSE,
            !.ball = BallReset(g.ball, NET_X, BALL_INITIAL_Y)]

Reset(g) ==
  [PrepareServe([g EXCEPT !.leftScore = 0, !.rightScore = 0, !.servingSide = LEFT])
     EXCEPT !.state = "PLAYING"]

\* every peer simulates
IsGuestNever(g) == FALSE

\* the guest of an online game runs no physics
IsGuest(g) == g.gameMode = "ONLINE" /\ ~g.isOnlineHost

\* the animation starts without its launch callback
StartServeAnimationNoCallback(p, direction) ==
  [p EXCEPT !.isServingAnimation = TRUE, !.servingProgress = 0]

\* the serving player starts the serve animation and registers the callback
StartServeAnimation(p, direction) ==
  [p EXCEPT !.isServingAnimation = TRUE, !.servingProgress = 0, !.onServeReady = direction]

HandleServe(g) ==
  IF g.servingSide = LEFT
  THEN LET b0 == IF ~g.waitingForServe
                 THEN BallReset(g.ball, g.player1.x, GROUND_Y - BALL_RADIUS) ELSE g.ball
           p1 == [g.player1 EXCEPT !.isServingMode = TRUE]
           hand == GetBallHandPosition(p1)
       IN  [g EXCEPT !.waitingForServe = TRUE,
                     !.ball = BallReset(b0, hand.x, hand.y),
                     !.player2 = [g.player2 EXCEPT !.isServingMode = FALSE],
                     !.player1 = IF g.player1Input.hit /\ ~p1.isServingAnimation
                                 THEN StartServeAnimation(p1, 1) ELSE p1]
  ELSE LET b0 == IF ~g.waitingForServe
                 THEN BallReset(g.ball, g.player2.x, GROUND_Y - BALL_RADIUS) ELSE g.ball
           timer0 == IF ~g.waitingForServe THEN 0 ELSE g.serveTimer
           timer1 == IF g.gameMode = "SINGLE_PLAYER" THEN timer0 + 1 ELSE timer0
           p2 == [g.player2 EXCEPT !.isServingMode = TRUE]
           hand == GetBallHandPosition(p2)
           trigger == IF g.gameMode = "SINGLE_PLAYER" THEN timer1 > BotServeDelay
                      ELSE g.player2Input.hit
       IN  [g EXCEPT !.waitingForServe = TRUE, !.serveTimer = timer1,
                     !.ball = BallReset(b0, hand.x, hand.y),
                     !.player1 = [g.player1 EXCEPT !.isServingMode = FALSE],
                     !.player2 = IF trigger /\ ~p2.isServingAnimation
                                 THEN StartServeAnimation(p2, -1) ELSE p2]

\* the launch also hands the serve to the other side
ServeReadyPassesServe(g, direction) ==
  IF direction = 0 THEN g
  ELSE [g EXCEPT !.ball = BallServe(g.ball, g.ball.x, g.ball.y, direction),
                 !.isServing = FALSE, !.waitingForServe = FALSE,
                 !.servingSide = 1 - @]

\* only the callback of the LEFT player launches the ball
ServeReadyLeftOnly(g, direction) ==
  IF direction # 1 THEN g
  ELSE [g EXCEPT !.ball = BallServe(g.ball, g.ball.x, g.ball.y, direction),
                 !.isServing = FALSE, !.waitingForServe = FALSE]

\* the onServeReady closure: launch the ball from where it is
ServeReady(g, direction) ==
  IF direction = 0 THEN g
  ELSE [g EXCEPT !.ball = BallServe(g.ball, g.ball.x, g.ball.y, direction),
                 !.isServing = FALSE, !.waitingForServe = FALSE]

\* the serve goes to the side that lost the rally
NextServingSideOpponent(scorer) == 1 - scorer

\* the side the serving side moves to when `scorer` wins the rally
NextServingSide(scorer) == scorer

\* a ball lying exactly under the net counts as on the left half
ScoringSideNetRight(x) == IF x <= NET_X THEN RIGHT ELSE LEFT

\* the side that wins the rally when the ball lies at x
ScoringSide(x) == IF x < NET_X THEN RIGHT ELSE LEFT

IsWonBeyond(left, right) == left > WINNING_SCORE \/ right > WINNING_SCORE

\* is the match decided?
IsWon(left, right) == left >= WINNING_SCORE \/ right >= WINNING_SCORE

CheckScoring(g) ==
  IF ~BallIsOnGround(g.ball) THEN [g |-> g, snd |-> <<>>, scored |-> {}]
  ELSE LET scorer == ScoringSide(g.ball.x)
           l == IF scorer = LEFT THEN g.leftScore + 1 ELSE g.leftScore
           r == IF scorer = RIGHT THEN g.rightScore + 1 ELSE g.rightScore
           g1 == [g EXCEPT !.leftScore = l, !.rightScore = r,
                           !.servingSide = NextServingSide(scorer)]
       IN  IF IsWon(l, r)
           THEN [g |-> [g1 EXCEPT !.state = "GAME_OVER"],
                 snd |-> IF g.gameMode = "TWO_PLAYER" THEN <<"win">>
                         ELSE IF l >= WINNING_SCORE THEN <<"win">> ELSE <<"lose">>,
                 scored |-> {scorer}]
           ELSE [g |-> PrepareServe(g1), snd |-> <<>>, scored |-> {scorer}]

\* the one-shot flags are ignored
MayHitAlways(p, isReturn) == TRUE

\* does this phase of the swing still have its impulse?
MayHit(p, isReturn) ==
  IF isReturn THEN ~p.hasHitInReturn ELSE ~p.hasHitInThisSwing

\* one player's half of checkHit; `collides` is the outcome of
\* ball.checkRacketCollision for this player's racket
CheckHitPlayer(p, b, direction, collides) ==
  IF p.isSwinging /\ collides /\ MayHit(p, IsInReturnPhase(p))
  THEN [p |-> IF IsInReturnPhase(p) THEN [p EXCEPT !.hasHitInReturn = TRUE]
              ELSE [p EXCEPT !.hasHitInThisSwing = TRUE],
        b |-> BallHit(b, direction, p.swingProgress, p.swingType = UPWARD),
        fwd |-> ~IsInReturnPhase(p), ret |-> IsInReturnPhase(p), snd |-> <<"hit">>]
  ELSE [p |-> p, b |-> b, fwd |-> FALSE, ret |-> FALSE, snd |-> <<>>]

\* checkHit: player 1 first, player 2 sees the ball player 1 left
CheckHit(g, c1, c2) ==
  LET h1 == CheckHitPlayer(g.player1, g.ball, 1, c1)
      h2 == CheckHitPlayer(g.player2, h1.b, -1, c2)
  IN  [g |-> [g EXCEPT !.player1 = h1.p, !.player2 = h2.p, !.ball = h2.b],
       snd |-> h1.snd \o h2.snd,
       fwd1 |-> h1.fwd, ret1 |-> h1.ret, fwd2 |-> h2.fwd, ret2 |-> h2.ret]

\* the wire form of servingSide and its reading on the guest
SideToWire(side) == IF side = LEFT THEN "LEFT" ELSE "RIGHT"

SideFromWire(w) == IF w = "LEFT" THEN LEFT ELSE RIGHT

\* the cooldown is not transmitted
PlayerToWireNoCooldown(p) ==
  [x |-> p.x, y |-> p.y, vx |-> p.vx, vy |-> p.vy, isSwinging |-> p.isSwinging,
   swingProgress |-> p.swingProgress, swingType |-> p.swingType,
   animationTime |-> p.animationTime, isOnGround |-> p.isOnGround,
   isServingMode |-> p.isServingMode, hitCooldown |-> 0]

\* a player's part of the snapshot
PlayerToWire(p) ==
  [x |-> p.x, y |-> p.y, vx |-> p.vx, vy |-> p.vy, isSwinging |-> p.isSwinging,
   swingProgress |-> p.swingProgress, swingType |-> p.swingType,
   animationTime |-> p.animationTime, isOnGround |-> p.isOnGround,
   isServingMode |-> p.isServingMode, hitCooldown |-> p.hitCooldown]

\* the GameStatePacket broadcastGameState builds
BuildSnapshot(g) ==
  [type |-> "GAME_STATE",
   ball |-> [x |-> g.ball.x, y |-> g.ball.y, vx |-> g.ball.vx, vy |-> g.ball.vy],
   player1 |-> PlayerToWire(g.player1), player2 |-> PlayerToWire(g.player2),
   score |-> [left |-> g.leftScore, right |-> g.rightScore],
   isServing |-> g.isServing, waitingForServe |-> g.waitingForServe,
   servingSide |-> SideToWire(g.servingSide),
   isGameOver |-> g.state = "GAME_OVER",
   winner |-> IF g.leftScore >= WINNING_SCORE THEN "LEFT"
              ELSE IF g.rightScore >= WINNING_SCORE THEN "RIGHT" ELSE ""]

\* every call sends
BroadcastGameStateUnthrottled(g, t) ==
  IF g.gameMode = "ONLINE" /\ g.isOnlineHost
  THEN [g |-> [g EXCEPT !.lastBroadcastTime = DateNow(t)],
        sent |-> <<BuildSnapshot(g)>>]
  ELSE [g |-> g, sent |-> <<>>]

\* broadcastGameState at host time t, throttled to BROADCAST_INTERVAL
BroadcastGameState(g, t) ==
  IF g.gameMode = "ONLINE" /\ g.isOnlineHost
  THEN IF DateNow(t) - g.lastBroadcastTime < BROADCAST_INTERVAL
       THEN [g |-> g, sent |-> <<>>]
       ELSE [g |-> [g EXCEPT !.lastBroadcastTime = DateNow(t)],
             sent |-> <<BuildSnapshot(g)>>]
  ELSE [g |-> g, sent |-> <<>>]

PlayerFromWire(p, w) ==
  [p EXCEPT !.x = w.x, !.y = w.y, !.vx = w.vx, !.vy = w.vy,
            !.isSwinging = w.isSwinging, !.swingProgress = w.swingProgress,
            !.swingType = w.swingType, !.animationTime = w.animationTime,
            !.isOnGround = w.isOnGround, !.isServingMode = w.isServingMode,
            !.hitCooldown = w.hitCooldown]

\* the serve sound accompanies every snapshot of a rally
ServeSoundAlways(wasServing, s) == ~s.isServing

\* guest: is the serve sound due for this snapshot?
ServeSoundDue(wasServing, s) == wasServing /\ ~s.isServing

\* any change of vy counts as a hit
HitSoundDueOnAnyChange(prevVx, prevVy, wasServing, s) ==
  /\ prevVx # 0 \/ prevVy # 0
  /\ Sign(s.ball.vx) # Sign(prevVx) \/ Abs(s.ball.vy - prevVy) > 0
  /\ ~wasServing

\* guest: is the hit sound due for this snapshot?
HitSoundDue(prevVx, prevVy, wasServing, s) ==
  /\ prevVx # 0 \/ prevVy # 0
  /\ Sign(s.ball.vx) # Sign(prevVx) \/ Abs(s.ball.vy - prevVy) > 500
  /\ ~wasServing

\* applyNetworkState (guest only): the mirror and the sounds played
ApplyNetworkState(g, s) ==
  LET becomesOver == s.isGameOver /\ g.state # "GAME_OVER"
  IN  [g |-> [g EXCEPT !.ball = [g.ball EXCEPT !.x = s.ball.x, !.y = s.ball.y,
                                              !.vx = s.ball.vx, !.vy = s.ball.vy],
                       !.player1 = PlayerFromWire(g.player1, s.player1),
                       !.player2 = PlayerFromWire(g.player2, s.player2),
                       !.leftScore = s.score.left, !.rightScore = s.score.right,
                       !.isServing = s.isServing,
                       !.waitingForServe = s.waitingForServe,
                       !.servingSide = SideFromWire(s.servingSide),
                       !.state = IF becomesOver THEN "GAME_OVER" ELSE g.state],
       snd |-> (IF ServeSoundDue(g.isServing, s) THEN <<"serve">> ELSE <<>>)
               \o (IF HitSoundDue(g.ball.vx, g.ball.vy, g.isServing, s)
                   THEN <<"hit">> ELSE <<>>)
               \o (IF s.score.left > g.leftScore \/ s.score.right > g.rightScore
                   THEN <<"ground">> ELSE <<>>)
               \o (IF becomesOver /\ s.winner = "LEFT" THEN <<"lose">>
                   ELSE IF becomesOver /\ s.winner = "RIGHT" THEN <<"win">> ELSE <<>>)]

\* player1.update(player1Input) and the serve callback it may run:
\* the game, the sounds, and what the update did
UpdatedPlayer1(g, r) ==
  [g |-> ServeReady([g EXCEPT !.player1 = r.p], r.fire),
   snd |-> r.snd \o (IF r.fire # 0 THEN <<"serve">> ELSE <<>>),
   ev |-> [NoEvents EXCEPT !.start1 = r.started,
                           !.anim1 = g.player1.isServingAnimation,
                           !.cool1 = g.player1.hitCooldown,
                           !.serveDir = r.fire]]

UpdatePlayer1(g) == UpdatedPlayer1(g, PlayerUpdate(g.player1, g.player1Input))

\* player2.update(player2Input) after u, the outcome of player 1's update
UpdatedPlayer2(u, r) ==
  [g |-> ServeReady([u.g EXCEPT !.player2 = r.p], r.fire),
   snd |-> u.snd \o r.snd \o (IF r.fire # 0 THEN <<"serve">> ELSE <<>>),
   ev |-> [u.ev EXCEPT !.start2 = r.started,
                       !.anim2 = u.g.player2.isServingAnimation,
                       !.cool2 = u.g.player2.hitCooldown,
                       !.serveDir = IF r.fire # 0 THEN r.fire ELSE @]]

UpdatePlayer2(u) == UpdatedPlayer2(u, PlayerUpdate(u.g.player2, u.g.player2Input))

\* the last call of update: broadcastGameState
Broadcast(g, snd, ev, t) ==
  [g |-> BroadcastGameState(g, t).g, snd |-> snd,
   sent |-> BroadcastGameState(g, t).sent, ev |-> [ev EXCEPT !.physics = TRUE]]

\* update while the serve is pending, after handleServe
Served(u, t) == Broadcast(u.g, u.snd, u.ev, t)

\* setSwingType of a player holding the hit key with no cooldown left
ChooseSwingType(p, input, ballY) ==
  IF input.hit /\ p.hitCooldown = 0 THEN SetSwingType(p, ballY) ELSE p

\* update in a rally, before the players move: the bot's intents and the
\* swing types
RallyIntents(g, bot) ==
  [g EXCEPT !.player2Input = IF g.gameMode = "SINGLE_PLAYER" THEN bot ELSE @,
            !.player1 = ChooseSwingType(@, g.player1Input, g.ball.y),
            !.player2 = ChooseSwingType(@, IF g.gameMode = "SINGLE_PLAYER" THEN bot
                                           ELSE g.player2Input, g.ball.y)]

\* checkScoring after sc, and the broadcast
Scored(u, rb, h, sc, t) ==
  Broadcast(sc.g, u.snd \o rb.snd \o h.snd \o sc.snd,
            [u.ev EXCEPT !.fwd1 = h.fwd1, !.ret1 = h.ret1,
                         !.fwd2 = h.fwd2, !.ret2 = h.ret2,
                         !.onGround = BallIsOnGround(h.g.ball),
                         !.ballX = h.g.ball.x, !.scored = sc.scored,
                         !.ballUpdated = TRUE], t)

\* checkHit (c1, c2: the outcomes of checkRacketCollision) and checkScoring
RacketsChecked(u, rb, h, t) == Scored(u, rb, h, CheckScoring(h.g), t)

BallUpdated(u, rb, c1, c2, t) ==
  RacketsChecked(u, rb, CheckHit([u.g EXCEPT !.ball = rb.b], c1, c2), t)

\* update in a rally, after the players moved
Rally(u, c1, c2, t) == BallUpdated(u, BallUpdate(u.g.ball), c1, c2, t)

\* Game.update at host time t.  c1, c2: the outcomes of checkRacketCollision
\* for the two rackets; bot: the intents BotInput.update leaves (single player)
Update(g, c1, c2, bot, t) ==
  IF IsGuest(g)
  THEN [g |-> g, snd |-> <<>>, sent |-> <<>>, ev |-> NoEvents]
  ELSE IF g.isServing
  THEN Served(UpdatePlayer2(UpdatePlayer1(HandleServe(g))), t)
  ELSE Rally(UpdatePlayer2(UpdatePlayer1(RallyIntents(g, bot))), c1, c2, t)

\* ------------------------------------------------------------- the state
VARIABLES
  host,      \* the simulating Game object (local game or online host)
  guest,     \* the Game object of the online guest
  channel,   \* GAME_STATE packets in flight, host -> guest
  clock,     \* host time
  pc,        \* position of the host's gameLoop: "idle" or "loop"
  sounds,    \* the sounds the last handler played, in order
  last,      \* the last handler that ran and what it did
  swings,    \* impulses applied to the ball in each player's current swing
  ballHist,  \* how the last two Ball.update calls ended, and the GROUND trigger
  ticks,     \* handlers run so far (bounds the exploration)
  net,       \* the NetworkManager, NetworkInput and LocalInputSender objects
  audio,     \* the SoundManager and the promise of Game.init
  winLose,   \* WIN / LOSE sounds the guest played since the host's match began
  frame      \* update() and render calls of the host's current display frame

vars == <<host, guest, channel, clock, pc, sounds, last, swings, ballHist, ticks,
          net, audio, winLose, frame>>

\* no display frame has run yet. elapsed: the time since the previous frame;
\* state, before: state and accumulator when the frame began; updates,
\* renders: the calls of update() and of renderScene the frame has made
NoFrame == [elapsed |-> 0, state |-> "LOADING", before |-> 0, updates |-> 0, renders |-> 0]

NoSwings == [f1 |-> 0, r1 |-> 0, f2 |-> 0, r2 |-> 0]

NoLast == [op |-> "init", ev |-> NoEvents]

\* no Ball.update has run yet
NoBallHist == [end |-> "none", prevEnd |-> "none", fired |-> FALSE, fires |-> 0]

\* the record of one more Ball.update, which left ball b and played snd
NextBallHist(h, b, snd) ==
  [end |-> IF BallIsOnGround(b) THEN "ground" ELSE "air", prevEnd |-> h.end,
   fired |-> Count(snd, "ground") > 0, fires |-> h.fires + Count(snd, "ground")]

StartClock == 3000

\* the names of SoundManager
SoundNames == {"hit", "serve", "land", "wall", "ground", "net", "win", "lose"}

\* a NetworkManager before createRoom / joinRoom, with the NetworkInput of the
\* host (its six intents are host.player2Input) and the LocalInputSender of
\* the guest (it reads guest.player2Input) as constructed.
\* peer, connection: the Peer and the DataConnection of the current attempt;
\* timers: pending join timeouts; notified: the states onStateChange was
\* called with; wire: messages in flight, guest -> host; lastSentState: <<>> for
\* the empty string, <<v>> for the vector v; calls: calls of sendInput
NoNet ==
  [state |-> "DISCONNECTED", isHost |-> FALSE, peer |-> "none",
   connection |-> "none", timers |-> <<>>, notified |-> <<>>,
   attempt |-> 0, promise |-> "none", expired |-> 0,
   established |-> 0, starts |-> <<>>, startedFor |-> {}, senders |-> 0,
   lastUpdateTime |-> 0, inputBuffer |-> <<>>,
   lastSentState |-> <<>>, wire |-> <<>>, calls |-> 0]

\* both peers after the lobby connected them and started the online game
OnlineNet ==
  [NoNet EXCEPT !.state = "CONNECTED", !.isHost = TRUE, !.peer = "open",
                !.connection = "open", !.notified = <<"CONNECTING", "CONNECTED">>,
                !.attempt = 1, !.promise = "resolved", !.established = 1,
                !.startedFor = {1}, !.senders = 1]

\* the SoundManager before loadSounds: no sound in the map; init: the promise
\* of Game.init ("images", "sounds": waiting for these; "resolved";
\* "rejected"); started: game.start() was called
NoAudio ==
  [loaded |-> {}, failed |-> {}, muted |-> FALSE, init |-> "images",
   started |-> FALSE]

\* ------------------------------------------------------------- key events
Keys1(g, input) == [g EXCEPT !.player1Input = input]

Keys2(g, input) == [g EXCEPT !.player2Input = input]

HitKey == [NoInput EXCEPT !.hit = TRUE]

LeftKey == [NoInput EXCEPT !.left = TRUE]

RightKey == [NoInput EXCEPT !.right = TRUE]

DownwardKey == [NoInput EXCEPT !.downward = TRUE]

\* Every specification starts from the Game object as constructed, with a
\* game mode chosen.  While ticks = 0 it plays an opening: the handlers run
\* with the keys held and nothing else happening, one step after the other.
\* From designated situations of the opening the handlers run with any
\* inputs; ticks counts these steps.

\* ------------------------------------------------- SpecPlayer: Player.update
\* the two Player objects of a game, driven by one intent vector per update

\* the keys held during the opening: walk left, walk right, jump, swing
\* upward, swing downward
PlayerOpenings ==
  {LeftKey, RightKey, [NoInput EXCEPT !.jump = TRUE],
   [NoInput EXCEPT !.upward = TRUE], DownwardKey}

\* the situations of the opening from which any inputs are explored: the
\* start; a player two steps before the world's left boundary or before its
\* service line; player 1 in the first update of a jump or about to land;
\* player 1 in the first update of a swing or two updates before its end
PlayerStops(g) ==
  \/ last.op = "init"
  \/ g.player1.x \in {LEFT_BOUNDARY + 2 * PLAYER_SPEED, SERVICE_LINE_LEFT - 2 * PLAYER_SPEED}
  \/ g.player2.x = SERVICE_LINE_RIGHT + 2 * PLAYER_SPEED
  \/ /\ ~g.player1.isOnGround
     /\ \/ g.player1.vy = GRAVITY - JUMP_FORCE
        \/ g.player1.y + g.player1.vy + GRAVITY >= GROUND_Y
  \/ /\ g.player1.isSwinging
     /\ g.player1.swingProgress \in {1, SwingDuration(g.player1.swingType) - 2}

\* Player.update of both players (the gameLoop calls them in this order),
\* after the choice of swing type that precedes them in a rally tick
PlayerTick(input) ==
  LET r1 == PlayerUpdate(ChooseSwingType(host.player1, input, host.ball.y), input)
      r2 == PlayerUpdate(ChooseSwingType(host.player2, input, host.ball.y), input)
  IN  /\ host' = [host EXCEPT !.player1 = r1.p, !.player2 = r2.p]
      /\ sounds' = r1.snd \o r2.snd
      /\ last' = [op |-> "Player.update",
                  ev |-> [NoEvents EXCEPT !.start1 = r1.started, !.start2 = r2.started]]
      /\ UNCHANGED <<net, audio, guest, channel, clock, pc, swings, ballHist, winLose, frame>>

\* the opening: both players are driven by the keys held from the start; a
\* walk ends two steps before the service line it leads to
HeldTick ==
  /\ ticks = 0
  /\ host.player1Input = LeftKey => host.player2.x > SERVICE_LINE_RIGHT + 2 * PLAYER_SPEED
  /\ host.player1Input = RightKey => host.player1.x < SERVICE_LINE_LEFT - 2 * PLAYER_SPEED
  /\ PlayerTick(host.player1Input)
  /\ UNCHANGED ticks

FreePlayerTick(input) ==
  /\ ticks < MaxPlayerTicks
  /\ ticks > 0 \/ PlayerStops(host)
  /\ PlayerTick(input)
  /\ ticks' = ticks + 1

InitPlayer ==
  /\ host \in {Keys1(SetGameMode(NewGame, "TWO_PLAYER"), input) : input \in PlayerOpenings}
  /\ guest = NewGame /\ channel = <<>> /\ clock = StartClock /\ pc = "idle"
  /\ sounds = <<>> /\ last = NoLast /\ swings = NoSwings
  /\ ballHist = NoBallHist /\ ticks = 0
  /\ net = NoNet /\ audio = NoAudio /\ winLose = 0 /\ frame = NoFrame

NextPlayer ==
  \/ HeldTick
  \/ \E input \in Input : FreePlayerTick(input)

SpecPlayer == InitPlayer /\ [][NextPlayer]_vars

\* C9: after every Player.update the player's x lies within
\* [LEFT_BOUNDARY, RIGHT_BOUNDARY], the LEFT player's x is at most
\* NET_X - 12 and the RIGHT player's x is at least NET_X + 12
PlayerXWithinBounds ==
  last.op = "Player.update" =>
    /\ \A p \in {host.player1, host.player2} :
         p.x >= LEFT_BOUNDARY /\ p.x <= RIGHT_BOUNDARY
    /\ host.player1.x <= NET_X - NetCollisionWidth
    /\ host.player2.x >= NET_X + NetCollisionWidth

\* an update in which the LEFT player walks left, would leave the court and
\* is held on the world's left bound
PlayerXClamped ==
  /\ last.op = "Player.update" /\ ticks = MaxPlayerTicks
  /\ host.player1.x = LEFT_BOUNDARY /\ host.player1.vx = -PLAYER_SPEED

\* C29: the service-line clamp acts in every Player.update: afterwards the
\* LEFT player's x is at most SERVICE_LINE_LEFT and the RIGHT player's x at
\* least SERVICE_LINE_RIGHT, and a player the clamp holds on its line (it is
\* on the line without having got there by a free step) has vx = 0
ServiceLineAlwaysClamps ==
  [][last'.op = "Player.update" =>
       /\ host'.player1.x <= SERVICE_LINE_LEFT
       /\ host'.player2.x >= SERVICE_LINE_RIGHT
       /\ \A q \in {<<host.player1, host'.player1, SERVICE_LINE_LEFT>>,
                     <<host.player2, host'.player2, SERVICE_LINE_RIGHT>>} :
            q[2].x = q[3] /\ q[2].x # q[1].x + q[2].vx => q[2].vx = 0]_vars

\* the RIGHT player, walking left, is held on its service line
RightPlayerHeldOnServiceLine ==
  /\ last.op = "Player.update" /\ ticks = MaxPlayerTicks
  /\ host.player2.x = SERVICE_LINE_RIGHT /\ host.player2.vx = 0
  /\ host.player1Input = LeftKey

\* C30: after every Player.update y <= GROUND_Y, and isOnGround implies
\* y = GROUND_Y and vy = 0; an airborne player either lands or falls on under
\* gravity alone, whatever the jump intent; and the LAND sound is played once
\* for each player that lands in the update and not otherwise
JumpAndLanding ==
  [][last'.op = "Player.update" =>
       /\ \A q \in {<<host.player1, host'.player1>>, <<host.player2, host'.player2>>} :
            /\ q[2].y <= GROUND_Y
            /\ q[2].isOnGround => q[2].y = GROUND_Y /\ q[2].vy = 0
            /\ ~q[1].isOnGround =>
                 \/ q[2].isOnGround
                 \/ q[2].vy = q[1].vy + GRAVITY /\ q[2].y = q[1].y + q[2].vy
       /\ Count(sounds', "land") =
            Cardinality({i \in {1, 2} :
               IF i = 1 THEN ~host.player1.isOnGround /\ host'.player1.isOnGround
               ELSE ~host.player2.isOnGround /\ host'.player2.isOnGround})]_vars

\* both players landed from a jump and stand on the ground again
LandedAfterJump ==
  /\ last.op = "Player.update" /\ ticks > 0 /\ Count(sounds, "land") = 2
  /\ host.player1.isOnGround /\ host.player1.wasOnGround

\* C22: a swing once started is neither restarted nor retyped before it
\* ends: after every Player.update in which the player is swinging,
\* swingProgress + hitCooldown is the duration of its swing type; while it
\* swings the type stays and the progress grows by one; and the swing
\* returns to idle in exactly the update in which hitCooldown reaches 0
SwingRunsItsDuration ==
  [][last'.op = "Player.update" =>
       \A q \in {<<host.player1, host'.player1>>, <<host.player2, host'.player2>>} :
         /\ q[2].isSwinging =>
              q[2].swingProgress + q[2].hitCooldown = SwingDuration(q[2].swingType)
         /\ q[1].isSwinging /\ q[2].isSwinging =>
              /\ q[2].swingType = q[1].swingType
              /\ q[2].swingProgress = q[1].swingProgress + 1
         /\ q[1].isSwinging => (~q[2].isSwinging <=> q[2].hitCooldown = 0)]_vars

\* a downward swing ran to its end, and a later update, with the upward key
\* down, started an upward swing
SwingEndedAndNextStarted ==
  /\ last.op = "Player.update" /\ last.ev.start1 /\ ticks > 1
  /\ host.player1.isSwinging /\ host.player1.swingType = UPWARD
  /\ host.player1.swingProgress = 1 /\ host.player1Input = DownwardKey

\* ----------------------------------------------------- SpecBall: Ball.update
\* the Ball of a two-player game: Ball.update and the writes the Game makes to
\* the ball between updates (hit, serve, hand position, reset)
BallHits ==
  {[direction |-> 1, swingProgress |-> 4, isUpward |-> TRUE],
   [direction |-> 1, swingProgress |-> 12, isUpward |-> TRUE],
   [direction |-> -1, swingProgress |-> 9, isUpward |-> TRUE],
   [direction |-> -1, swingProgress |-> 17, isUpward |-> FALSE],
   [direction |-> 1, swingProgress |-> 3, isUpward |-> FALSE]}

\* the places Ball.serve is called with: a player's hand, or where the ball is
ServePlaces(g) ==
  {GetBallHandPosition(g.player1), GetBallHandPosition(g.player2),
   [x |-> g.ball.x, y |-> g.ball.y]}

\* the falling ball is within two updates of the ground
AboutToLand(b) == b.vy > 0 /\ b.y >= BALL_GROUND_Y - 1900

BallOp(op, b, snd) ==
  /\ host' = [host EXCEPT !.ball = b]
  /\ sounds' = snd
  /\ last' = [op |-> op, ev |-> NoEvents]
  /\ UNCHANGED <<net, audio, guest, channel, clock, pc, swings, winLose, frame>>

BallTick ==
  LET r == BallUpdate(host.ball)
  IN  /\ BallOp("Ball.update", r.b, r.snd)
      /\ ballHist' = NextBallHist(ballHist, r.b, r.snd)

\* Ball.hit with the arguments h, which `last` keeps
BallHitOp(h) ==
  /\ host' = [host EXCEPT !.ball = BallHit(@, h.direction, h.swingProgress, h.isUpward)]
  /\ sounds' = <<"hit">>
  /\ last' = [op |-> "Ball.hit", ev |-> NoEvents, arg |-> h]
  /\ UNCHANGED <<net, audio, guest, channel, clock, pc, swings, ballHist, winLose, frame>>

\* Ball.serve(x, y, direction), whose arguments `last` keeps
BallServeOp(x, y, direction) ==
  /\ host' = [host EXCEPT !.ball = BallServe(@, x, y, direction)]
  /\ sounds' = <<>>
  /\ last' = [op |-> "Ball.serve", ev |-> NoEvents,
              arg |-> [x |-> x, y |-> y, direction |-> direction]]
  /\ UNCHANGED <<net, audio, guest, channel, clock, pc, swings, ballHist, winLose, frame>>

BallToHand(p) ==
  /\ BallOp("Ball.reset", BallReset(host.ball, GetBallHandPosition(p).x,
                                    GetBallHandPosition(p).y), <<>>)
  /\ UNCHANGED ballHist

BallResetOp ==
  /\ BallOp("Ball.reset", BallReset(host.ball, NET_X, BALL_INITIAL_Y), <<>>)
  /\ UNCHANGED ballHist

\* the opening: player 1 takes the ball in hand and serves it, and the ball
\* flies untouched until it is about to land
ServedBall ==
  /\ ticks = 0
  /\ \/ last.op = "init" /\ BallToHand(host.player1)
     \/ last.op = "Ball.reset" /\ BallServeOp(host.ball.x, host.ball.y, 1)
     \/ /\ last.op \in {"Ball.serve", "Ball.update"}
        /\ ~AboutToLand(host.ball)
        /\ BallTick
  /\ UNCHANGED ticks

\* any operation on the ball, from the moment it is about to land
FreeBall ==
  /\ ticks < MaxBallTicks
  /\ ticks > 0 \/ AboutToLand(host.ball)
  /\ ticks' = ticks + 1

InitBall ==
  /\ host = SetGameMode(NewGame, "TWO_PLAYER")
  /\ guest = NewGame /\ channel = <<>> /\ clock = StartClock /\ pc = "idle"
  /\ sounds = <<>> /\ last = NoLast /\ swings = NoSwings
  /\ ballHist = NoBallHist /\ ticks = 0
  /\ net = NoNet /\ audio = NoAudio /\ winLose = 0 /\ frame = NoFrame

NextBall ==
  \/ ServedBall
  \/ FreeBall /\ BallTick
  \/ \E h \in BallHits : FreeBall /\ BallHitOp(h)
  \/ \E direction \in {1, -1}, at \in ServePlaces(host) :
       FreeBall /\ BallServeOp(at.x, at.y, direction)
  \/ \E p \in {host.player1, host.player2} : FreeBall /\ BallToHand(p)
  \/ FreeBall /\ BallResetOp

SpecBall == InitBall /\ [][NextBall]_vars

\* C10: the GROUND trigger of Ball.update fires only in an update that ends
\* with the ball at or below BALL_GROUND_Y when the previous update ended
\* above it (or there was none); it does not fire again while the ball stays
GroundFiresOnlyOnEntry ==
  ballHist.fired => ballHist.end = "ground" /\ ballHist.prevEnd # "ground"

\* the ball landed, left the ground, landed again (two triggers) and then
\* stayed on the ground for an update that fired nothing
BallRestsAfterSecondLanding ==
  /\ last.op = "Ball.update" /\ ballHist.fires = 2 /\ ~ballHist.fired
  /\ ballHist.end = "ground" /\ ballHist.prevEnd = "ground"

\* C11 as stated: for all x, y and direction d, right after Ball.serve(x, y, d)
\* isOnGround() is false and vy is negative
ServedBallIsInAir ==
  last.op = "Ball.serve" => ~BallIsOnGround(host.ball) /\ host.ball.vy < 0

\* C11, amended: right after Ball.serve(x, y, d) vy is negative, and
\* isOnGround() is false whenever the y served from is above BALL_GROUND_Y
ServedBallRises ==
  last.op = "Ball.serve" =>
    /\ host.ball.vy < 0
    /\ last.arg.y < BALL_GROUND_Y => ~BallIsOnGround(host.ball)

\* a ball lying on the ground was served from a player's hand
ServedFromHandOffGround ==
  /\ last.op = "Ball.serve" /\ ballHist.end = "ground" /\ ticks > 0
  /\ last.arg.y < BALL_GROUND_Y /\ host.ball.y = last.arg.y

\* C12: an upward Ball.hit sets the same velocity whatever the racket angle:
\* vx towards `direction`, vy < 0, |vx| = |vy| and the speed the base power
\* (to the hundredth the velocity is kept in); direction -1 mirrors direction 1
UpwardHitIsFixed ==
  last.op = "Ball.hit" /\ last.arg.isUpward =>
    /\ Sign(host.ball.vx) = last.arg.direction
    /\ host.ball.vy < 0
    /\ Abs(host.ball.vx) = Abs(host.ball.vy)
    /\ host.ball.vy = BallHit(host.ball, 1, 0, TRUE).vy
    /\ host.ball.vx = last.arg.direction * BallHit(host.ball, 1, 0, TRUE).vx
    /\ (BasePower - 2) * (BasePower - 2)
         <= host.ball.vx * host.ball.vx + host.ball.vy * host.ball.vy
    /\ host.ball.vx * host.ball.vx + host.ball.vy * host.ball.vy
         <= (BasePower + 2) * (BasePower + 2)

\* the right player struck an upward hit late in the swing
UpwardHitFromTheRight ==
  /\ last.op = "Ball.hit" /\ last.arg.isUpward
  /\ last.arg.direction = -1 /\ last.arg.swingProgress > 0

\* --------------------------------------------- SpecGame: a local match
\* a TWO_PLAYER match on one machine: key events, display frames (gameLoop)
\* and the fixed-step updates each frame runs
Min(a, b) == IF a < b THEN a ELSE b

\* points played so far
Points(g) == g.leftScore + g.rightScore

\* the keys a player may be holding
GameKeys == {NoInput, HitKey, [HitKey EXCEPT !.upward = TRUE], DownwardKey}

\* key events change the intents of player i to `input`
KeyPress(i, input) ==
  /\ pc = "idle"
  /\ input # (IF i = 1 THEN host.player1Input ELSE host.player2Input)
  /\ host' = IF i = 1 THEN Keys1(host, input) ELSE Keys2(host, input)
  /\ last' = [op |-> "key", ev |-> NoEvents]
  /\ sounds' = <<>>
  /\ UNCHANGED <<net, audio, guest, channel, clock, pc, swings, ballHist, winLose, frame>>

\* time between two display frames: half a step, one step, a stalled tab
FrameDeltas == {25, 50, 400}

\* the while loop goes on as long as a quarter of a step is left
LoopGoesOnEarly(accumulator) == 4 * accumulator >= FixedTimeStep

\* the condition of the while loop of gameLoop
LoopGoesOn(accumulator) == accumulator >= FixedTimeStep

\* gameLoop up to its while loop, at host time t; a PLAYING frame without a
\* due update goes straight on to render
GameLoop(dt, t) ==
  /\ pc = "idle"
  /\ IF host.state = "PLAYING"
     THEN /\ host' = [host EXCEPT !.accumulator = @ + Min(dt, MaxFrameDelta)]
          /\ pc' = IF LoopGoesOn(host'.accumulator) THEN "loop" ELSE "idle"
          /\ UNCHANGED channel
     ELSE LET bc == IF host.state = "GAME_OVER" THEN BroadcastGameState(host, t)
                    ELSE [g |-> host, sent |-> <<>>]
          IN  /\ host' = bc.g
              /\ channel' = channel \o bc.sent
              /\ UNCHANGED pc
  /\ frame' = [elapsed |-> dt, state |-> host.state, before |-> host.accumulator,
               updates |-> 0,
               renders |-> IF host.state = "PLAYING"
                           THEN IF pc' = "idle" THEN 1 ELSE 0
                           ELSE IF host.state \in {"GAME_OVER", "MENU"} THEN 1 ELSE 0]
  /\ last' = [op |-> "gameLoop", ev |-> NoEvents]
  /\ sounds' = <<>>
  /\ UNCHANGED <<net, audio, guest, swings, ballHist, winLose>>

\* the impulses of each player's current swing after one more update
NextSwings(sw, ev) ==
  [f1 |-> (IF ev.start1 THEN 0 ELSE sw.f1) + (IF ev.fwd1 THEN 1 ELSE 0),
   r1 |-> (IF ev.start1 THEN 0 ELSE sw.r1) + (IF ev.ret1 THEN 1 ELSE 0),
   f2 |-> (IF ev.start2 THEN 0 ELSE sw.f2) + (IF ev.fwd2 THEN 1 ELSE 0),
   r2 |-> (IF ev.start2 THEN 0 ELSE sw.r2) + (IF ev.ret2 THEN 1 ELSE 0)]

\* can the racket of p touch the ball in the coming update?
RacketOutcomes(p, input) ==
  IF p.isSwinging \/ input.upward \/ input.downward THEN BOOLEAN ELSE {FALSE}

\* one iteration of the while loop of gameLoop: update(), accumulator -= step;
\* the iteration that ends the loop goes on to render
UpdateStep(c1, c2) ==
  /\ pc = "loop"
  /\ \E r \in {Update(host, c1, c2, NoInput, clock)} :
       /\ host' = [r.g EXCEPT !.accumulator = @ - FixedTimeStep]
       /\ pc' = IF LoopGoesOn(r.g.accumulator - FixedTimeStep)
                THEN "loop" ELSE "idle"
       /\ frame' = [frame EXCEPT !.updates = @ + 1,
                                 !.renders = IF pc' = "idle" THEN @ + 1 ELSE @]
       /\ channel' = channel \o r.sent
       /\ sounds' = r.snd
       /\ last' = [op |-> "update", ev |-> r.ev]
       /\ swings' = NextSwings(swings, r.ev)
       /\ ballHist' = IF r.ev.ballUpdated
                      THEN NextBallHist(ballHist, r.g.ball,
                                        IF Count(r.snd, "ground") > 0
                                        THEN <<"ground">> ELSE <<>>)
                      ELSE ballHist
  /\ UNCHANGED <<net, audio, guest, clock, ticks, winLose>>

Step ==
  \E c1 \in RacketOutcomes(host.player1, host.player1Input),
     c2 \in RacketOutcomes(host.player2, host.player2Input) : UpdateStep(c1, c2)

\* the opening: player 1 may first walk right until the service line stops
\* it; then both players hold their serve keys, one display frame per fixed
\* step, rally after rally until the ball of the rally at WINNING_SCORE - 1
\* points is about to land
OpeningWalk ==
  /\ ticks = 0 /\ last.op = "init"
  /\ KeyPress(1, RightKey)
  /\ UNCHANGED ticks

OpeningServe ==
  /\ ticks = 0
  /\ \/ /\ \/ last.op = "init"
           \/ host.player1Input = RightKey /\ host.player1.x = SERVICE_LINE_LEFT
        /\ KeyPress(1, HitKey)
     \/ /\ host.player1Input = HitKey
        /\ KeyPress(2, HitKey)
  /\ UNCHANGED ticks

OpeningGoesOn ==
  /\ ticks = 0 /\ host.state = "PLAYING" /\ channel = <<>>
  /\ \/ host.player1Input = RightKey /\ host.player1.x < SERVICE_LINE_LEFT
     \/ /\ host.player1Input = HitKey /\ host.player2Input = HitKey
        /\ ~(/\ Points(host) = WINNING_SCORE - 1
             /\ ~host.isServing /\ AboutToLand(host.ball))

OpeningFrame ==
  /\ OpeningGoesOn
  /\ GameLoop(FixedTimeStep, clock)
  /\ UNCHANGED <<clock, ticks>>

\* the situations of the opening from which any keys and frames are explored:
\* the start of the match, the served ball at its apex in the first rally,
\* and the ball about to land at WINNING_SCORE - 1 points
ExploreFrom ==
  /\ channel = <<>>
  /\ \/ last.op = "init"
     \/ /\ ~host.isServing /\ Points(host) = 0
        /\ host.ball.vy > 0 /\ host.ball.vy <= BALL_GRAVITY
     \/ /\ ~host.isServing /\ AboutToLand(host.ball)
        /\ Points(host) = WINNING_SCORE - 1

FreeStep == pc = "idle" /\ ticks < MaxGameTicks /\ (ticks > 0 \/ ExploreFrom)

KeyEvent(i, input) ==
  /\ FreeStep
  /\ KeyPress(i, input)
  /\ ticks' = ticks + 1

\* the space key restarts a finished match; in an online match it first sends
\* RESTART to the peer
SpaceKey ==
  /\ FreeStep
  /\ host.state = "GAME_OVER"
  /\ host' = Reset(host)
  /\ channel' = IF host.gameMode = "ONLINE" /\ net.connection = "open"
                THEN Append(channel, [type |-> "RESTART", timestamp |-> DateNow(clock)])
                ELSE channel
  /\ winLose' = 0
  /\ last' = [op |-> "reset", ev |-> NoEvents]
  /\ sounds' = <<>>
  /\ ticks' = ticks + 1
  /\ UNCHANGED <<net, audio, guest, clock, pc, swings, ballHist, frame>>

\* a display frame of a local match (the clock is read by the online host only)
LocalFrame(dt) ==
  /\ FreeStep
  /\ GameLoop(dt, clock)
  /\ ticks' = ticks + 1
  /\ UNCHANGED clock

InitGame ==
  /\ host = SetGameMode(NewGame, "TWO_PLAYER")
  /\ guest = NewGame /\ channel = <<>> /\ clock = StartClock /\ pc = "idle"
  /\ sounds = <<>> /\ last = NoLast /\ swings = NoSwings
  /\ ballHist = NoBallHist /\ ticks = 0
  /\ net = NoNet /\ audio = NoAudio /\ winLose = 0 /\ frame = NoFrame

NextGame ==
  \/ OpeningWalk
  \/ OpeningServe
  \/ OpeningFrame
  \/ \E i \in {1, 2}, input \in GameKeys : KeyEvent(i, input)
  \/ SpaceKey
  \/ \E dt \in FrameDeltas : LocalFrame(dt)
  \/ Step

SpecGame == InitGame /\ [][NextGame]_vars

\* C1: once the match is in GAME_OVER no scoring adjudication runs and
\* neither score changes until the match is reset, further updates of the
\* accumulator loop in the same frame included
NoScoringAfterGameOver ==
  [][(host.state = "GAME_OVER" /\ host'.state = "GAME_OVER")
       => /\ host'.leftScore = host.leftScore
          /\ host'.rightScore = host.rightScore
          /\ (last'.op = "update" => last'.ev.scored = {})]_vars

\* C2 as stated: an update that awards a point makes servingSide the
\* opponent of the side that scored
ServingSideBecomesOpponent ==
  [][last'.op = "update"
       => /\ (host'.leftScore > host.leftScore => host'.servingSide = RIGHT)
          /\ (host'.rightScore > host.rightScore => host'.servingSide = LEFT)]_vars

\* C2: an update that awards a point makes servingSide the side that scored
ServingSideBecomesScorer ==
  [][last'.op = "update"
       => /\ (host'.leftScore > host.leftScore => host'.servingSide = LEFT)
          /\ (host'.rightScore > host.rightScore => host'.servingSide = RIGHT)]_vars

\* the right side won a rally the left side had served
RightScoredOnLeftServe ==
  /\ last.op = "update" /\ last.ev.scored = {RIGHT}
  /\ host.rightScore = 1 /\ host.leftScore = 0 /\ host.servingSide = RIGHT

\* C3: a rally update whose scoring adjudication finds the ball on the
\* ground adds exactly 1 to exactly one score: the right one when
\* ball.x < NET_X, the left one otherwise, ball.x = NET_X included
GroundedBallScoresOnce ==
  [][/\ ScoringSide(NET_X) = LEFT
     /\ (last'.op = "update" /\ last'.ev.onGround)
          => IF last'.ev.ballX < NET_X
             THEN /\ host'.rightScore = host.rightScore + 1
                  /\ host'.leftScore = host.leftScore
             ELSE /\ host'.leftScore = host.leftScore + 1
                  /\ host'.rightScore = host.rightScore]_vars

\* the ball came down on the left half and the right side got the point
BallGroundedLeftOfNet ==
  /\ last.op = "update" /\ last.ev.onGround /\ last.ev.ballX < NET_X
  /\ last.ev.scored = {RIGHT} /\ host.rightScore > 0

\* C4: from the update that starts a swing to the one that ends it, at most
\* one impulse is applied in the forward phase and at most one in the return
\* phase, for each player
AtMostOneImpulsePerPhase ==
  swings.f1 <= 1 /\ swings.r1 <= 1 /\ swings.f2 <= 1 /\ swings.r2 <= 1

\* one swing of player 1 that struck the ball on the way out and on the way
\* back
SwingStruckTwice ==
  last.op = "update" /\ swings.f1 = 1 /\ swings.r1 = 1

\* C5: Player.update starts a swing only when hitCooldown = 0 and the player
\* is not in a serve animation
SwingStartsOutsideServeAnimation ==
  /\ last.ev.start1 => last.ev.cool1 = 0 /\ ~last.ev.anim1
  /\ last.ev.start2 => last.ev.cool2 = 0 /\ ~last.ev.anim2

\* C20: leftScore, rightScore and servingSide change only in an update whose
\* scoring adjudication found the ball on the ground, or in a reset; isServing
\* goes from true to false only in the update that launches the serve and
\* from false to true only in the prepareServe of a scoring update or a reset
ScoreStateChangesAtRallyBoundaries ==
  [][/\ (\/ host'.leftScore # host.leftScore
          \/ host'.rightScore # host.rightScore
          \/ host'.servingSide # host.servingSide)
          => \/ last'.op = "update" /\ last'.ev.onGround
             \/ last'.op = "reset"
     /\ host.isServing /\ ~host'.isServing
          => last'.op = "update" /\ last'.ev.serveDir # 0
     /\ ~host.isServing /\ host'.isServing
          => \/ last'.op = "update" /\ last'.ev.scored # {}
             \/ last'.op = "reset"]_vars

\* the right side, having won a point, launches its serve
RightServeLaunched ==
  /\ last.op = "update" /\ last.ev.serveDir = -1
  /\ ~host.isServing /\ host.rightScore > 0 /\ host.servingSide = RIGHT

\* servingProgress of p after the increment of an update in which its serve
\* animation runs (an animation handleServe has just started is at 0)
ProgressAfter(p) == IF p.isServingAnimation THEN p.servingProgress + 1 ELSE 1

\* C21: in every update, the launch callback of a running serve animation is
\* invoked exactly when servingProgress becomes SERVING_ANIMATION_DURATION
\* \div 2, so once per animation; the animation goes on, progress by
\* progress, whatever the serve keys, until the update in which servingProgress
\* reaches SERVING_ANIMATION_DURATION, which leaves isServingAnimation and
\* isServingMode false, servingProgress 0 and no callback registered
ServeAnimationRunsOnce ==
  [][last'.op = "update" =>
       /\ last'.ev.serveDir # 0 <=>
            \/ last'.ev.anim1 /\ ProgressAfter(host.player1) = SERVING_ANIMATION_DURATION \div 2
            \/ last'.ev.anim2 /\ ProgressAfter(host.player2) = SERVING_ANIMATION_DURATION \div 2
       /\ \A q \in {<<host.player1, host'.player1, last'.ev.anim1>>,
                     <<host.player2, host'.player2, last'.ev.anim2>>} :
            /\ q[1].isServingAnimation => q[3]
            /\ q[3] =>
                 IF ProgressAfter(q[1]) >= SERVING_ANIMATION_DURATION
                 THEN /\ ~q[2].isServingAnimation /\ ~q[2].isServingMode
                      /\ q[2].servingProgress = 0 /\ q[2].onServeReady = 0
                 ELSE /\ q[2].isServingAnimation
                      /\ q[2].servingProgress = ProgressAfter(q[1])
                      /\ q[2].onServeReady # 0
                      /\ q[1].isServingAnimation => q[2].onServeReady = q[1].onServeReady]_vars

\* the serve animation of player 2, who held the serve key all along, ended
\* in the rally its callback had started
ServeAnimationEnded ==
  /\ last.op = "update" /\ last.ev.anim2 /\ ~host.player2.isServingAnimation
  /\ host.player2Input.hit /\ ~host.isServing /\ host.servingSide = RIGHT

\* C24: an update that starts with isServing runs neither Ball.update nor the
\* hit and scoring adjudication; and when it launches no serve it ends with
\* the ball at rest at the ball-hand position of the player on servingSide,
\* that player and no other being in serving mode
ServingTickHoldsBallInHand ==
  [][last'.op = "update" /\ host.isServing =>
       /\ ~last'.ev.ballUpdated /\ last'.ev.scored = {} /\ ~last'.ev.onGround
       /\ ~last'.ev.fwd1 /\ ~last'.ev.ret1 /\ ~last'.ev.fwd2 /\ ~last'.ev.ret2
       /\ last'.ev.serveDir = 0 =>
            /\ host'.ball.vx = 0 /\ host'.ball.vy = 0
            /\ host'.ball.x = GetBallHandPosition(IF host'.servingSide = LEFT THEN host'.player1
                                                  ELSE host'.player2).x
            /\ host'.ball.y = GetBallHandPosition(IF host'.servingSide = LEFT THEN host'.player1
                                                  ELSE host'.player2).y
            /\ host'.player1.isServingMode <=> host'.servingSide = LEFT
            /\ host'.player2.isServingMode <=> host'.servingSide = RIGHT]_vars

\* -------------------------------------------- SpecOnline: an online match
\* the host simulates and broadcasts GAME_STATE packets, the guest mirrors them
FreshGuest == StartOnlineGame(NewGame, FALSE)

\* the opening of the host; the guest takes every packet before the next frame
OpeningHostFrame ==
  /\ OpeningGoesOn
  /\ GameLoop(FixedTimeStep, clock + FixedTimeStep)
  /\ clock' = clock + FixedTimeStep
  /\ UNCHANGED ticks

\* a display frame of the host dt after the previous one
HostFrame(dt) ==
  /\ FreeStep
  /\ GameLoop(dt, clock + dt)
  /\ clock' = clock + dt
  /\ ticks' = ticks + 1

\* the guest's onMessage handler takes the next packet: a GAME_STATE packet is
\* applied, a RESTART resets the guest
GuestReceive ==
  /\ channel # <<>>
  /\ IF Head(channel).type = "GAME_STATE"
     THEN LET r == ApplyNetworkState(guest, Head(channel))
          IN  /\ guest' = r.g
              /\ sounds' = r.snd
              /\ winLose' = winLose + Count(r.snd, "win") + Count(r.snd, "lose")
              /\ last' = [op |-> "applyNetworkState", ev |-> NoEvents]
     ELSE /\ guest' = Reset(guest)
          /\ sounds' = <<>>
          /\ last' = [op |-> "guest.restart", ev |-> NoEvents]
          /\ UNCHANGED winLose
  /\ channel' = Tail(channel)
  /\ UNCHANGED <<net, audio, host, clock, pc, swings, ballHist, ticks, frame>>

\* one fixed-step update() of the guest's own gameLoop
GuestUpdate(c1, c2) ==
  /\ guest.state = "PLAYING"
  /\ LET r == Update(guest, c1, c2, NoInput, clock)
     IN  /\ guest' = r.g
         /\ sounds' = r.snd
         /\ last' = [op |-> "guest.update", ev |-> r.ev]
  /\ UNCHANGED <<net, audio, host, channel, clock, pc, swings, ballHist, ticks, winLose, frame>>

\* the guest's keydown listener: the space key restarts a finished match on
\* the guest and sends RESTART to the host
GuestSpaceKey ==
  /\ guest.state = "GAME_OVER"
  /\ guest' = Reset(guest)
  /\ net' = [net EXCEPT !.wire = IF net.connection = "open"
                                 THEN Append(@, [type |-> "RESTART",
                                                 timestamp |-> DateNow(clock)])
                                 ELSE @]
  /\ last' = [op |-> "guest.space", ev |-> NoEvents]
  /\ sounds' = <<>>
  /\ UNCHANGED <<audio, host, channel, clock, pc, swings, ballHist, winLose, frame>>

\* the callback the host gave its NetworkInput takes a RESTART of the guest
HostRestart ==
  /\ pc = "idle" /\ net.wire # <<>> /\ net.connection = "open"
  /\ Head(net.wire).type = "RESTART"
  /\ host' = Reset(host)
  /\ net' = [net EXCEPT !.wire = Tail(@)]
  /\ winLose' = 0
  /\ last' = [op |-> "host.restart", ev |-> NoEvents]
  /\ sounds' = <<>>
  /\ UNCHANGED <<audio, guest, channel, clock, pc, swings, ballHist, frame>>

InitOnline ==
  /\ host = StartOnlineGame(NewGame, TRUE)
  /\ guest = FreshGuest
  /\ channel = <<>> /\ clock = StartClock /\ pc = "idle"
  /\ sounds = <<>> /\ last = NoLast /\ swings = NoSwings
  /\ ballHist = NoBallHist /\ ticks = 0
  /\ net = OnlineNet /\ audio = NoAudio /\ winLose = 0 /\ frame = NoFrame

NextOnline ==
  \/ OpeningServe
  \/ OpeningHostFrame
  \/ \E i \in {1, 2}, input \in GameKeys : KeyEvent(i, input)
  \/ \E dt \in FrameDeltas : HostFrame(dt)
  \/ Step
  \/ GuestReceive
  \/ \E c1, c2 \in BOOLEAN : GuestUpdate(c1, c2)
  \/ GuestSpaceKey /\ UNCHANGED ticks
  \/ HostRestart /\ UNCHANGED ticks
  \/ SpaceKey

SpecOnline == InitOnline /\ [][NextOnline]_vars

\* C6: on the guest of an online game every fixed-step update() leaves the
\* ball, both players, both scores, servingSide, isServing and
\* waitingForServe unchanged
GuestUpdateLeavesMirror ==
  [][last'.op = "guest.update"
       => /\ guest'.ball = guest.ball
          /\ guest'.player1 = guest.player1 /\ guest'.player2 = guest.player2
          /\ guest'.leftScore = guest.leftScore
          /\ guest'.rightScore = guest.rightScore
          /\ guest'.servingSide = guest.servingSide
          /\ guest'.isServing = guest.isServing
          /\ guest'.waitingForServe = guest.waitingForServe]_vars

\* the guest ran update() while its mirror showed a rally with the ball in
\* flight and a player swinging
GuestUpdatedInRally ==
  /\ last.op = "guest.update" /\ guest.state = "PLAYING"
  /\ ~guest.isServing /\ guest.ball.vy # 0 /\ guest.player1.isSwinging

\* C7: for every host state, the snapshot broadcastGameState builds, applied
\* by applyNetworkState to a fresh guest mirror, makes every mirrored field
\* equal to the host's: the ball's x, y, vx, vy, eleven fields of each player,
\* both scores, isServing, waitingForServe, servingSide and game-over status
SnapshotRoundTrip ==
  \A m \in {ApplyNetworkState(FreshGuest, BuildSnapshot(host)).g} :
    /\ \A f \in {"x", "y", "vx", "vy"} : m.ball[f] = host.ball[f]
    /\ \A f \in {"x", "y", "vx", "vy", "isSwinging", "swingProgress", "swingType",
                 "animationTime", "isOnGround", "isServingMode", "hitCooldown"} :
         /\ m.player1[f] = host.player1[f]
         /\ m.player2[f] = host.player2[f]
    /\ m.leftScore = host.leftScore /\ m.rightScore = host.rightScore
    /\ m.isServing = host.isServing
    /\ m.waitingForServe = host.waitingForServe
    /\ m.servingSide = host.servingSide
    /\ (m.state = "GAME_OVER") = (host.state = "GAME_OVER")

\* the guest applied the snapshot of a finished match, taken while a
\* player's cooldown was running
GameOverSnapshotApplied ==
  /\ last.op = "applyNetworkState"
  /\ host.state = "GAME_OVER" /\ guest.state = "GAME_OVER"
  /\ guest.leftScore = host.leftScore /\ guest.leftScore >= WINNING_SCORE
  /\ guest.player1.hitCooldown > 0

\* C8: applying a snapshot on the guest fires exactly one serve-sound trigger
\* when the mirrored isServing is true and the snapshot's isServing is false,
\* and none otherwise
ServeSoundOnServeEdgeOnly ==
  [][last'.op = "applyNetworkState"
       => Count(sounds', "serve")
            = IF guest.isServing /\ ~Head(channel).isServing THEN 1 ELSE 0]_vars

\* the guest applied the first snapshot of a rally and played the serve
\* sound once, together with nothing else
ServeSoundPlayedOnce ==
  /\ last.op = "applyNetworkState" /\ sounds = <<"serve">> /\ ~guest.isServing

\* C25: on the guest a WIN or LOSE sound is played exactly when a snapshot
\* with isGameOver is applied while the guest is not in GAME_OVER (LOSE when
\* the winner is LEFT, WIN when it is RIGHT), and one game-over of the host
\* makes the guest play at most one of them
OneWinLoseSoundPerGameOver ==
  /\ winLose <= 1
  /\ last.op = "applyNetworkState" =>
       /\ Count(sounds, "win") + Count(sounds, "lose") <= 1
       /\ Count(sounds, "win") = 1 => guest.state = "GAME_OVER" /\ guest.rightScore >= WINNING_SCORE
       /\ Count(sounds, "lose") = 1 => guest.state = "GAME_OVER" /\ guest.leftScore >= WINNING_SCORE

\* C26: applying a snapshot on the guest plays the hit sound, once, exactly
\* when the guest is not in the serving state and the snapshot's ball vx
\* differs in sign from the mirrored vx or its vy differs from the mirrored
\* vy by more than 5
HitSoundOnVelocityChange ==
  [][last'.op = "applyNetworkState" =>
       Count(sounds', "hit") =
         IF /\ ~guest.isServing
            /\ \/ Sign(Head(channel).ball.vx) # Sign(guest.ball.vx)
               \/ Abs(Head(channel).ball.vy - guest.ball.vy) > 500
         THEN 1 ELSE 0]_vars

\* the guest played the hit sound for a snapshot that showed the ball struck
\* back across the net
HitSoundPlayed ==
  /\ last.op = "applyNetworkState" /\ Count(sounds, "hit") = 1
  /\ ~guest.isServing /\ guest.state = "PLAYING"

\* C16: two successive snapshot sends of the host are at least
\* BROADCAST_INTERVAL apart on the host's clock (Date.now), however many
\* updates one display frame runs: a handler sends at most one snapshot, and
\* only when the interval has passed since the previous send
SnapshotsThrottled ==
  [][(Len(channel') > Len(channel) /\ channel'[Len(channel')].type = "GAME_STATE")
       => /\ Len(channel') = Len(channel) + 1
          /\ host'.lastBroadcastTime = DateNow(clock')
          /\ host'.lastBroadcastTime - host.lastBroadcastTime >= BROADCAST_INTERVAL]_vars

\* two snapshots are in flight, the second sent by the last update of a
\* frame that ran several updates
TwoSnapshotsInFlight ==
  /\ last.op = "update" /\ pc = "idle" /\ ticks > 1 /\ Len(channel) = 2
  /\ host.lastBroadcastTime = DateNow(clock)

\* C28: in an online match the host that has entered GAME_OVER sends at least
\* one snapshot with isGameOver = true, so that the guest enters GAME_OVER:
\* when the host leaves GAME_OVER such a snapshot is in flight, or the guest
\* has applied one (it is in GAME_OVER, or has played WIN / LOSE since the
\* host's match began)
GameOverSnapshotSent ==
  [][(host.gameMode = "ONLINE" /\ host.state = "GAME_OVER" /\ host'.state # "GAME_OVER")
       => \/ \E i \in 1..Len(channel) :
               channel[i].type = "GAME_STATE" /\ channel[i].isGameOver
          \/ guest.state = "GAME_OVER"
          \/ winLose > 0]_vars

\* C34: after the guest applies a GAME_STATE snapshot it is in GAME_OVER
\* exactly when the snapshot's isGameOver is true, whatever resets, snapshots
\* and RESTART messages came before
GuestStateFollowsSnapshot ==
  [][last'.op = "applyNetworkState" =>
       (guest'.state = "GAME_OVER" <=> Head(channel).isGameOver)]_vars

\* C33: on the host the match is in GAME_OVER exactly when a side has reached
\* WINNING_SCORE, and every GAME_STATE packet in flight has isGameOver true
\* exactly when its winner field names a side
GameOverIffWon ==
  /\ host.state = "GAME_OVER"
       <=> (host.leftScore >= WINNING_SCORE \/ host.rightScore >= WINNING_SCORE)
  /\ \A i \in 1..Len(channel) :
       channel[i].type = "GAME_STATE"
         => (channel[i].isGameOver <=> channel[i].winner \in {"LEFT", "RIGHT"})

\* the last point of a match has been scored and a packet of the finished
\* match is in flight
FinishedMatchBroadcast ==
  /\ last.op = "update"
  /\ host.state = "GAME_OVER"
  /\ host.leftScore + host.rightScore >= WINNING_SCORE
  /\ \E i \in 1..Len(channel) :
       channel[i].type = "GAME_STATE" /\ channel[i].isGameOver /\ channel[i].winner # ""

\* --------------------------------- SpecConnection: the NetworkManager
\* one peer's NetworkManager from the lobby's createRoom / joinRoom on, with
\* the events of its Peer, its DataConnection and its join timer
MaxLinkTicks == 5

\* NetworkManager.setState: store the state and call onStateChange
SetState(n, state) == [n EXCEPT !.state = state, !.notified = Append(@, state)]

\* a handler of the network layer leaves the objects n
NetOp(op, n) ==
  /\ net' = n
  /\ last' = [op |-> op, ev |-> NoEvents]
  /\ sounds' = <<>>
  /\ UNCHANGED <<host, guest, channel, clock, pc, swings, ballHist, audio, winLose, frame>>

LinkStep == ticks < MaxLinkTicks /\ ticks' = ticks + 1

\* resolve / reject of the promise createRoom or joinRoom returned: a settled
\* promise stays as it is
Settle(promise, outcome) == IF promise = "pending" THEN outcome ELSE promise

\* the lobby's onPeerConnected callback: startGame in 2 s, for the connection
\* established last
OnPeerConnected(n) == [n EXCEPT !.starts = Append(@, n.established)]

\* OnlineLobbyController.joinRoom after its await: startGame in 2 s
AfterJoinAwait(n) == [n EXCEPT !.starts = Append(@, n.established)]

\* the lobby's buttons start an attempt (no data connection is open)
CreateRoom ==
  /\ LinkStep /\ net.connection # "open"
  /\ NetOp("createRoom", [SetState(net, "CONNECTING") EXCEPT
                            !.isHost = TRUE, !.peer = "opening", !.connection = "none",
                            !.attempt = @ + 1, !.promise = "pending"])

JoinRoom ==
  /\ LinkStep /\ net.connection # "open"
  /\ NetOp("joinRoom", [SetState(net, "CONNECTING") EXCEPT
                          !.isHost = FALSE, !.peer = "opening", !.connection = "none",
                          !.attempt = @ + 1, !.promise = "pending",
                          !.timers = Append(@, net.attempt + 1)])

\* peer.on('open'): the host's room exists; the guest connects to the room
PeerOpen ==
  /\ LinkStep /\ net.peer = "opening"
  /\ NetOp("peer.open",
           IF net.isHost THEN [SetState(net, "CONNECTED") EXCEPT
                                 !.peer = "open", !.promise = Settle(@, "resolved")]
           ELSE [net EXCEPT !.peer = "open", !.connection = "opening"])

\* peer.on('connection') of the host: setupConnectionHandlers, which calls
\* onPeerConnected on the host
PeerConnection ==
  /\ LinkStep /\ net.isHost /\ net.peer = "open" /\ net.connection = "none"
  /\ NetOp("peer.connection",
           OnPeerConnected([net EXCEPT !.connection = "open", !.established = @ + 1]))

\* the guest's NetworkManager after conn.on('open'): onPeerConnected is called
\* and the promise resolved
GuestConnected(n) ==
  [OnPeerConnected([SetState(n, "CONNECTED") EXCEPT
                      !.connection = "open", !.established = @ + 1])
     EXCEPT !.promise = Settle(@, "resolved")]

\* the lobby's joinRoom goes on after its await when the promise of this
\* attempt was still pending
JoinResolvedOnce(n, promise) == IF promise = "pending" THEN AfterJoinAwait(n) ELSE n

\* conn.on('open') of the guest, and the continuation of the lobby's joinRoom
ConnectionOpen ==
  /\ LinkStep /\ ~net.isHost /\ net.connection = "opening"
  /\ NetOp("connection.open", JoinResolvedOnce(GuestConnected(net), net.promise))

\* peer.on('error'), host or guest
PeerError ==
  /\ LinkStep /\ net.peer # "none"
  /\ NetOp("peer.error", [SetState(net, "ERROR") EXCEPT !.promise = Settle(@, "rejected")])

\* the state a NetworkManager is in after an 'error' of its DataConnection:
\* the handler joinRoom registered sets ERROR, the one of
\* setupConnectionHandlers only logs
AfterConnectionError(n) ==
  IF n.isHost THEN n
  ELSE [SetState(n, "ERROR") EXCEPT !.promise = Settle(@, "rejected")]

\* conn.on('error'), before or after the connection is open
ConnectionError ==
  /\ LinkStep /\ net.connection \in {"opening", "open"}
  /\ NetOp("connection.error", AfterConnectionError(net))

\* conn.on('close') of an established connection
ConnectionClose ==
  /\ LinkStep /\ net.connection = "open"
  /\ NetOp("connection.close", [SetState(net, "DISCONNECTED") EXCEPT !.connection = "closed"])

\* the 30 s timer the joinRoom call of attempt k set: it tests the state of
\* the NetworkManager and rejects the promise of its own call
TimerFires(n, k) ==
  IF n.state = "CONNECTING"
  THEN [SetState(n, "ERROR") EXCEPT
          !.promise = IF k = n.attempt THEN Settle(@, "rejected") ELSE @,
          !.expired = IF k = n.attempt THEN k ELSE @]
  ELSE n

\* the oldest 30 s timer fires (no timer is ever cleared)
JoinTimeout ==
  /\ LinkStep /\ net.timers # <<>>
  /\ NetOp("join.timeout",
           [TimerFires(net, Head(net.timers)) EXCEPT !.timers = Tail(@)])

\* NetworkManager.disconnect (the lobby's back button)
Disconnect ==
  /\ LinkStep
  /\ NetOp("disconnect", [SetState(net, "DISCONNECTED") EXCEPT
                            !.peer = "none", !.connection = "none"])

\* OnlineLobbyController.startGame, 2 s after it was scheduled: onGameStart
\* with getIsHost() of that moment; Game.startOnlineGame initialises the
\* match, and on the guest creates and starts a LocalInputSender
StartGame ==
  /\ LinkStep /\ net.starts # <<>>
  /\ net' = [net EXCEPT !.starts = Tail(@),
                        !.startedFor = @ \cup {Head(net.starts)},
                        !.senders = IF net.isHost THEN @ ELSE @ + 1]
  /\ host' = IF net.isHost THEN StartOnlineGame(host, TRUE) ELSE host
  /\ guest' = IF net.isHost THEN guest ELSE StartOnlineGame(guest, FALSE)
  /\ last' = [op |-> "startGame", ev |-> NoEvents]
  /\ sounds' = <<>>
  /\ UNCHANGED <<channel, clock, pc, swings, ballHist, audio, winLose, frame>>

InitConnection ==
  /\ host = NewGame /\ guest = NewGame
  /\ channel = <<>> /\ clock = StartClock /\ pc = "idle"
  /\ sounds = <<>> /\ last = NoLast /\ swings = NoSwings
  /\ ballHist = NoBallHist /\ ticks = 0
  /\ net = NoNet /\ audio = NoAudio /\ winLose = 0 /\ frame = NoFrame

NextConnection ==
  \/ CreateRoom
  \/ JoinRoom
  \/ PeerOpen
  \/ PeerConnection
  \/ ConnectionOpen
  \/ PeerError
  \/ ConnectionError
  \/ ConnectionClose
  \/ JoinTimeout
  \/ Disconnect
  \/ StartGame

SpecConnection == InitConnection /\ [][NextConnection]_vars

\* C18: every transport failure (a peer error, a connection error before or
\* after the connection is established, a join still CONNECTING when its
\* 30 s timer fires, an unexpected close) moves the ConnectionState to ERROR
\* or DISCONNECTED and calls the state-change callback with it, and starts no
\* new attempt
TransportFailureSurfaces ==
  [][(\/ last'.op \in {"peer.error", "connection.error", "connection.close"}
      \/ last'.op = "join.timeout" /\ net.state = "CONNECTING")
       => /\ net'.state \in {"ERROR", "DISCONNECTED"}
          /\ net'.notified = Append(net.notified, net'.state)
          /\ net'.peer = net.peer]_vars

\* C36: for each established peer connection the lobby calls onGameStart at
\* most once on a peer and only while that connection is still open, so that
\* a guest has started at most one LocalInputSender per connection (stated of
\* each call of startGame)
GameStartedOncePerConnection ==
  [][last'.op = "startGame" =>
       /\ net.connection = "open"
       /\ Head(net.starts) = net.established
       /\ Head(net.starts) \notin net.startedFor
       /\ net'.senders <= net'.established]_vars

\* C37: the 30 s timer of a joinRoom call changes the state, and rejects the
\* promise, of its own attempt only; an attempt its timer moved to ERROR does
\* not become CONNECTED afterwards
JoinTimeoutHitsOwnAttempt ==
  [][/\ (last'.op = "join.timeout" /\ net'.state # net.state)
          => Head(net.timers) = net.attempt
     /\ (last'.op = "join.timeout" /\ net'.promise # net.promise)
          => Head(net.timers) = net.attempt
     /\ (net'.state = "CONNECTED" /\ net.state # "CONNECTED")
          => net.expired # net.attempt]_vars

\* ------------------------------------ SpecAudio: loading the sounds
\* Game.init up to game.start(): ResourceManager.waitForAll, the load events
\* of the Audio elements of SoundManager.loadSounds, and SoundManager.play
AudioOp(op, arg, a, state, snd) ==
  /\ audio' = a
  /\ host' = [host EXCEPT !.state = state]
  /\ last' = [op |-> op, ev |-> NoEvents, arg |-> arg]
  /\ sounds' = snd
  /\ UNCHANGED <<guest, channel, clock, pc, swings, ballHist, ticks, net, winLose, frame>>

\* the images are in (a failed image is replaced by a placeholder):
\* waitForAll goes on to loadSounds
ImagesLoaded ==
  /\ audio.init = "images"
  /\ AudioOp("waitForAll", "", [audio EXCEPT !.init = "sounds"], host.state, <<>>)

\* Promise.all of loadSounds after one more sound is in the map: when all
\* are, waitForAll and Game.init return and game.start() shows the menu
AllSoundsIn(a) ==
  IF a.init = "sounds" /\ a.loaded = SoundNames
  THEN [a EXCEPT !.init = "resolved", !.started = TRUE]
  ELSE a

\* 'canplaythrough' of the Audio element of sound n
SoundLoaded(n) ==
  /\ audio.init # "images" /\ n \notin audio.loaded \cup audio.failed
  /\ \E a \in {AllSoundsIn([audio EXCEPT !.loaded = @ \cup {n}])} :
       AudioOp("canplaythrough", n, a,
               IF a.started /\ ~audio.started THEN "MENU" ELSE host.state, <<>>)

\* Promise.all of loadSounds after a sound failed: the first rejection
\* rejects loadSounds, waitForAll and Game.init, whose catch only logs
SoundRejected(a) == IF a.init = "sounds" THEN [a EXCEPT !.init = "rejected"] ELSE a

\* 'error' of the Audio element of sound n
SoundFailed(n) ==
  /\ audio.init # "images" /\ n \notin audio.loaded \cup audio.failed
  /\ AudioOp("error", n, SoundRejected([audio EXCEPT !.failed = @ \cup {n}]),
             host.state, <<>>)

\* SoundManager.play(n): the sounds it makes audible
Play(a, n) == IF a.muted \/ n \notin a.loaded THEN <<>> ELSE <<n>>

SoundManagerPlay(n) ==
  /\ audio.init # "images"
  /\ AudioOp("SoundManager.play", n, audio, host.state, Play(audio, n))

\* the mute button, which Game.init sets up after waitForAll
ToggleMute ==
  /\ audio.init = "resolved"
  /\ AudioOp("toggleMute", "", [audio EXCEPT !.muted = ~@], host.state, <<>>)

InitAudio ==
  /\ host = NewGame /\ guest = NewGame
  /\ channel = <<>> /\ clock = StartClock /\ pc = "idle"
  /\ sounds = <<>> /\ last = NoLast /\ swings = NoSwings
  /\ ballHist = NoBallHist /\ ticks = 0
  /\ net = NoNet /\ audio = NoAudio /\ winLose = 0 /\ frame = NoFrame

NextAudio ==
  \/ ImagesLoaded
  \/ \E n \in SoundNames : SoundLoaded(n)
  \/ \E n \in SoundNames : SoundFailed(n)
  \/ \E n \in SoundNames : SoundManagerPlay(n)
  \/ ToggleMute

SpecAudio == InitAudio /\ [][NextAudio]_vars

\* C17: if an audio asset fails to load, initialization still completes and
\* the game starts once every asset has loaded or failed; play() of a sound
\* that failed does nothing, and a sound that loaded still plays
AudioFailureLeavesGameRunning ==
  [][/\ audio'.failed # {} /\ audio'.loaded \cup audio'.failed = SoundNames
          => audio'.init = "resolved" /\ audio'.started
     /\ last'.op = "SoundManager.play" /\ last'.arg \in audio.failed
          => sounds' = <<>>
     /\ last'.op = "SoundManager.play" /\ last'.arg \in audio.loaded /\ ~audio.muted
          => sounds' = <<last'.arg>>]_vars

\* ------------------------- SpecNetworkInput: the guest's intents on the wire
\* the KeyboardInput and LocalInputSender of the guest, the NetworkInput of
\* the host and the data connection between them, under their operations
MaxInputTicks == 6

BUFFER_SIZE == 3

\* the age after which NetworkInput.update takes the input for stale
StaleAfter == 500 * Millisecond

\* the interval of LocalInputSender.startSending (16 ms), and a stall
PollInterval == 16 * Millisecond

LongPause == 600 * Millisecond

\* the keys of the guest the exploration presses and releases
InputKeys == {"left", "jump", "hit"}

\* the link is compared with what was sent whatever it holds
SendDueAlways(v, lastSentState) == TRUE

\* sendCurrentInput: does the vector differ from the last one sent?
SendDue(v, lastSentState) == <<v>> # lastSentState

\* NetworkManager.sendInput / send at time t: dropped unless the connection is open
SendInput(n, v, t) ==
  [n EXCEPT !.calls = @ + 1,
            !.wire = IF n.connection = "open"
                     THEN Append(@, [type |-> "INPUT_STATE", input |-> v,
                                     timestamp |-> DateNow(t)])
                     ELSE @]

\* LocalInputSender.sendCurrentInput at time t with the local intents v
SendCurrentInput(n, v, t) ==
  IF SendDue(v, n.lastSentState)
  THEN [SendInput(n, v, t) EXCEPT !.lastSentState = <<v>>]
  ELSE n

\* the buffer is never trimmed
HandleInputPacketNoShift(n, packet) ==
  [n EXCEPT !.inputBuffer = Append(@, packet),
            !.lastUpdateTime = packet.timestamp]

\* NetworkInput.handleInputPacket: buffer the packet, applyInput
HandleInputPacket(n, packet) ==
  [n EXCEPT !.inputBuffer = IF Len(@) >= BUFFER_SIZE THEN Append(Tail(@), packet)
                            ELSE Append(@, packet),
            !.lastUpdateTime = packet.timestamp]

GetInputAge(n, t) == DateNow(t) - n.lastUpdateTime

\* only the movement intents time out
NetworkInputUpdateKeepsJump(input, age) ==
  IF age > StaleAfter THEN [input EXCEPT !.left = FALSE, !.right = FALSE] ELSE input

\* NetworkInput.update with the six intents `input` of the given age
NetworkInputUpdate(input, age) ==
  IF age > StaleAfter
  THEN [input EXCEPT !.left = FALSE, !.right = FALSE, !.jump = FALSE]
  ELSE input

\* a handler of the input link leaves the peers' intents h and g and the objects n
LinkOp(op, h, g, n) ==
  /\ pc = "idle"
  /\ host' = [host EXCEPT !.player2Input = h]
  /\ guest' = [guest EXCEPT !.player2Input = g]
  /\ net' = n
  /\ last' = [op |-> op, ev |-> NoEvents]
  /\ sounds' = <<>>
  /\ UNCHANGED <<channel, pc, swings, ballHist, audio, winLose, frame>>

\* keydown / keyup of key k on the guest: KeyboardInput.updateInputs
GuestKey(k) ==
  /\ LinkOp("key", host.player2Input, [guest.player2Input EXCEPT ![k] = ~@], net)
  /\ UNCHANGED clock

\* the interval timer of the LocalInputSender fires
SenderPoll ==
  /\ LinkOp("sendCurrentInput", host.player2Input, guest.player2Input,
            SendCurrentInput(net, guest.player2Input, clock))
  /\ UNCHANGED clock

\* conn.on('data') of the host with the next INPUT_STATE packet
HostReceive ==
  /\ net.wire # <<>> /\ net.connection = "open"
  /\ Head(net.wire).type = "INPUT_STATE"
  /\ LinkOp("handleInputPacket", Head(net.wire).input, guest.player2Input,
            [HandleInputPacket(net, Head(net.wire)) EXCEPT !.wire = Tail(@)])
  /\ UNCHANGED clock

\* the stale-input check of the host's NetworkInput
StaleCheck ==
  /\ LinkOp("NetworkInput.update",
            NetworkInputUpdate(host.player2Input, GetInputAge(net, clock)),
            guest.player2Input, net)
  /\ UNCHANGED clock

\* NetworkInput.reset
NetworkInputReset ==
  /\ LinkOp("NetworkInput.reset", NoInput, guest.player2Input,
            [net EXCEPT !.inputBuffer = <<>>])
  /\ UNCHANGED clock

\* conn.on('close'): the remote side closed the connection
RemoteClose ==
  /\ net.connection = "open"
  /\ LinkOp("connection.close", host.player2Input, guest.player2Input,
            [SetState(net, "DISCONNECTED") EXCEPT !.connection = "closed"])
  /\ UNCHANGED clock

\* time goes by
TimePasses(dt) ==
  /\ LinkOp("time", host.player2Input, guest.player2Input, net)
  /\ clock' = clock + dt

\* the opening: the guest presses and releases its serve key, the sender
\* polls and the host takes the packet, until the buffer of the host's
\* NetworkInput is full
OpeningInput ==
  /\ ticks = 0 /\ Len(net.inputBuffer) < BUFFER_SIZE
  /\ IF net.wire # <<>> THEN HostReceive
     ELSE IF SendDue(guest.player2Input, net.lastSentState) THEN SenderPoll
     ELSE GuestKey("hit")
  /\ UNCHANGED ticks

\* any handler may run from the start and once the buffer is full
InputStep ==
  /\ ticks < MaxInputTicks
  /\ ticks > 0 \/ last.op = "init" \/ Len(net.inputBuffer) = BUFFER_SIZE
  /\ ticks' = ticks + 1

\* a match the left side has won, on the host and mirrored on the guest
FinishedMatch(g) ==
  [g EXCEPT !.state = "GAME_OVER", !.leftScore = WINNING_SCORE, !.isServing = FALSE]

\* the link during a match or after it
InitOnlineNet ==
  /\ host \in {StartOnlineGame(NewGame, TRUE), FinishedMatch(StartOnlineGame(NewGame, TRUE))}
  /\ guest = IF host.state = "GAME_OVER" THEN FinishedMatch(FreshGuest) ELSE FreshGuest
  /\ channel = <<>> /\ clock = StartClock /\ pc = "idle"
  /\ sounds = <<>> /\ last = NoLast /\ swings = NoSwings
  /\ ballHist = NoBallHist /\ ticks = 0
  /\ net = OnlineNet /\ audio = NoAudio /\ winLose = 0 /\ frame = NoFrame

NextNetworkInput ==
  \/ \E k \in InputKeys : InputStep /\ GuestKey(k)
  \/ InputStep /\ SenderPoll
  \/ InputStep /\ HostReceive
  \/ InputStep /\ StaleCheck
  \/ InputStep /\ NetworkInputReset
  \/ InputStep /\ RemoteClose
  \/ \E dt \in {PollInterval, LongPause} : InputStep /\ TimePasses(dt)
  \/ OpeningInput
  \/ InputStep /\ GuestSpaceKey
  \/ InputStep /\ HostRestart

SpecNetworkInput == InitOnlineNet /\ [][NextNetworkInput]_vars

LatestPacketApplied ==
  [][/\ last'.op = "handleInputPacket" =>
          /\ Head(net.wire).type = "INPUT_STATE"
          /\ host'.player2Input = Head(net.wire).input
          /\ net'.lastUpdateTime = Head(net.wire).timestamp
          /\ net'.inputBuffer[Len(net'.inputBuffer)] = Head(net.wire)
     /\ last'.op = "host.restart" =>
          /\ Head(net.wire).type # "INPUT_STATE"
          /\ host'.player2Input = host.player2Input
          /\ net'.inputBuffer = net.inputBuffer
     /\ Len(net'.inputBuffer) <= BUFFER_SIZE]_vars

\* a packet arrived at a full buffer and replaced the intents of the one
\* before it
PacketAppliedToFullBuffer ==
  /\ last.op = "handleInputPacket" /\ ticks > 0
  /\ Len(net.inputBuffer) = BUFFER_SIZE
  /\ net.inputBuffer[BUFFER_SIZE - 1].input # net.inputBuffer[BUFFER_SIZE].input
  /\ host.player2Input = net.inputBuffer[BUFFER_SIZE].input

MaxHostTicks == 4

\* a display frame of the host dt after the previous one
InputHostFrame(dt) ==
  /\ ticks < MaxHostTicks
  /\ GameLoop(dt, clock + dt)
  /\ clock' = clock + dt
  /\ ticks' = ticks + 1

\* NetworkManager.disconnect on the host
HostDisconnect ==
  /\ net.connection = "open"
  /\ LinkOp("disconnect", host.player2Input, guest.player2Input,
            [SetState(net, "DISCONNECTED") EXCEPT !.peer = "none", !.connection = "none"])
  /\ UNCHANGED clock

HostStep == ticks < MaxHostTicks /\ ticks' = ticks + 1

NextOnlineInput ==
  \/ \E k \in InputKeys : HostStep /\ GuestKey(k)
  \/ HostStep /\ SenderPoll
  \/ HostStep /\ HostReceive
  \/ \E dt \in {FixedTimeStep, LongPause} : InputHostFrame(dt)
  \/ Step /\ UNCHANGED ticks
  \/ HostStep /\ RemoteClose
  \/ HostStep /\ HostDisconnect

SpecOnlineInput == InitOnlineNet /\ [][NextOnlineInput]_vars

\* C14: on the host of an online game, when no INPUT_STATE packet has been
\* received for more than 500 ms, every physics tick drives player 2 with
\* left = false and right = false: it does not move horizontally
StaleGuestStopsMoving ==
  /\ last.op = "update" /\ net.inputBuffer # <<>>
  /\ GetInputAge(net, clock) > StaleAfter
  => /\ ~host.player2Input.left /\ ~host.player2Input.right
     /\ host.player2.vx = 0

\* C15: after the connection is torn down (NetworkManager.disconnect or the
\* remote side closing), the host's NetworkInput has all six intents false
TornDownLinkIsNeutral ==
  net.connection # "open" => host.player2Input = NoInput

\* ------------------------------------ SpecBot: a match against the computer
\* a SINGLE_PLAYER match: the human serves from where it stands or walks to
\* its service line first, and holds the serve key from then on; the bot's
\* intents are idle in the rallies (handleServe does not read them); display
\* frames arrive one per fixed step for as long as the match is played
MaxBotPoints == 2

\* the serve timer is followed up to this many updates
MaxServeTicks == 80

\* a display frame; the rallies are followed up to MaxBotPoints points, a
\* serve of the bot to its launch
BotFrame ==
  /\ host.state = "PLAYING" /\ host.serveTimer < MaxServeTicks
  /\ Points(host) < MaxBotPoints \/ (host.isServing /\ host.servingSide = RIGHT)
  /\ GameLoop(FixedTimeStep, clock)
  /\ UNCHANGED <<clock, ticks>>

\* the human's keys while the bot is about to serve: after the first update
\* of the wait and after the last one before the animation
BotHumanKey(input) ==
  /\ ticks < MaxGameTicks
  /\ host.isServing /\ host.servingSide = RIGHT
  /\ host.serveTimer \in {1, BotServeDelay}
  /\ KeyPress(1, input)
  /\ ticks' = ticks + 1

\* the human, arrived at its service line, lets go and holds the serve key
BotOpeningServe ==
  /\ ticks = 0
  /\ host.player1Input = RightKey /\ host.player1.x = SERVICE_LINE_LEFT
  /\ KeyPress(1, HitKey)
  /\ UNCHANGED ticks

\* the while loop of gameLoop runs the one update a frame of FixedTimeStep
\* makes due; under NextBot the steps that do this are those of Step
UpdateDue == pc = "loop" /\ pc' = "idle"

InitBot ==
  /\ host \in {Keys1(SetGameMode(NewGame, "SINGLE_PLAYER"), input) : input \in {HitKey, RightKey}}
  /\ guest = NewGame /\ channel = <<>> /\ clock = StartClock /\ pc = "idle"
  /\ sounds = <<>> /\ last = NoLast /\ swings = NoSwings
  /\ ballHist = NoBallHist /\ ticks = 0
  /\ net = NoNet /\ audio = NoAudio /\ winLose = 0 /\ frame = NoFrame

NextBot ==
  \/ BotOpeningServe
  \/ BotFrame
  \/ Step /\ UNCHANGED ticks
  \/ \E input \in {NoInput, LeftKey, RightKey} : BotHumanKey(input)

\* requestAnimationFrame keeps calling gameLoop, and gameLoop runs its
\* updates to the end
SpecBot ==
  InitBot /\ [][NextBot]_vars /\ WF_vars(BotFrame) /\ WF_pc(UpdateDue)

\* C23: in SINGLE_PLAYER mode a serving phase of the RIGHT side leads to the
\* launch of the ball (isServing false) whatever the human does; the serve
\* timer counts the updates of that serving phase (1 in the update that
\* finds the ball where prepareServe put it), and the bot's serve animation
\* starts only in an update in which the timer is beyond BotServeDelay
BotServesByItself ==
  /\ (host.isServing /\ host.servingSide = RIGHT) ~> ~host.isServing
  /\ [][last'.op = "update" /\ host.isServing /\ host.servingSide = RIGHT =>
          /\ host'.serveTimer =
               IF host.ball.x = NET_X /\ host.ball.y = BALL_INITIAL_Y THEN 1
               ELSE host.serveTimer + 1
          /\ (last'.ev.anim2 /\ ~host.player2.isServingAnimation)
               => host'.serveTimer > BotServeDelay]_vars

\* the bot's serve was launched by the callback of its animation, after the
\* human had pressed keys during the wait
BotServeLaunched ==
  /\ last.op = "update" /\ last.ev.serveDir = -1 /\ ~host.isServing
  /\ host.gameMode = "SINGLE_PLAYER" /\ host.serveTimer > BotServeDelay
  /\ ticks > 0

\* ------------------------------------ SpecLoop: the display frames of gameLoop
\* Game.start: the menu is shown and the first frame is requested
Start(g) == [g EXCEPT !.state = "MENU"]

\* the menu's callback starts a local match
MenuChoice(mode) ==
  /\ FreeStep
  /\ host.state = "MENU"
  /\ host' = SetGameMode(host, mode)
  /\ last' = [op |-> "setGameMode", ev |-> NoEvents]
  /\ sounds' = <<>>
  /\ ticks' = ticks + 1
  /\ UNCHANGED <<net, audio, guest, channel, clock, pc, swings, ballHist, winLose, frame>>

\* the menu after start(), a match just chosen, or a finished match
InitLoop ==
  /\ host \in {Start(NewGame), SetGameMode(NewGame, "TWO_PLAYER"),
               FinishedMatch(SetGameMode(NewGame, "TWO_PLAYER"))}
  /\ guest = NewGame /\ channel = <<>> /\ clock = StartClock /\ pc = "idle"
  /\ sounds = <<>> /\ last = NoLast /\ swings = NoSwings
  /\ ballHist = NoBallHist /\ ticks = 0
  /\ net = NoNet /\ audio = NoAudio /\ winLose = 0 /\ frame = NoFrame

NextLoop ==
  \/ \E dt \in FrameDeltas : LocalFrame(dt)
  \/ Step
  \/ SpaceKey
  \/ \E mode \in {"SINGLE_PLAYER", "TWO_PLAYER"} : MenuChoice(mode)

SpecLoop == InitLoop /\ [][NextLoop]_vars

\* C31: a display frame that begins in PLAYING adds the elapsed time, clamped
\* to 0.1 s, to the accumulator, calls update() once per whole fixedTimeStep
\* the accumulator then holds, ends with 0 <= accumulator < fixedTimeStep and
\* renders exactly once, after the updates; a frame that begins in MENU or
\* GAME_OVER calls no update() and leaves the accumulator alone
FrameRunsDueUpdates ==
  [][/\ last'.op = "gameLoop" =>
          /\ frame'.updates = 0
          /\ host'.accumulator =
               IF host.state = "PLAYING"
               THEN host.accumulator + Min(frame'.elapsed, MaxFrameDelta)
               ELSE host.accumulator
          /\ host.state # "PLAYING" => pc' = "idle"
     /\ last'.op = "update" =>
          /\ frame.state = "PLAYING" /\ frame.renders = 0
          /\ frame'.updates = frame.updates + 1
          /\ host'.accumulator = host.accumulator - FixedTimeStep
     /\ pc' = "loop" => frame'.renders = 0
     /\ (pc' = "idle" /\ last'.op \in {"gameLoop", "update"} /\ frame'.state = "PLAYING") =>
          /\ frame'.updates =
               (frame'.before + Min(frame'.elapsed, MaxFrameDelta)) \div FixedTimeStep
          /\ 0 <= host'.accumulator /\ host'.accumulator < FixedTimeStep
          /\ frame'.renders = 1]_vars

\* a frame that took longer than 0.1 s has run its updates and rendered
ClampedFrameEnded ==
  /\ last.op = "update" /\ pc = "idle" /\ frame.elapsed > MaxFrameDelta
  /\ frame.updates >= MaxFrameDelta \div FixedTimeStep /\ frame.renders = 1

\* ------------- SpecRestart: an online match restarted by the guest
MaxOverFrames == 4

\* display frames of the host on its game-over screen, one per fixed step
GameOverFrame ==
  /\ ticks = 0 /\ host.state = "GAME_OVER"
  /\ clock < StartClock + MaxOverFrames * FixedTimeStep
  /\ GameLoop(FixedTimeStep, clock + FixedTimeStep)
  /\ clock' = clock + FixedTimeStep
  /\ UNCHANGED ticks

\* the guest presses space on its game-over screen: while the host shows its
\* own, or later during the serve animation of the guest's player, early or
\* just before the launch
RestartStops ==
  /\ ticks = 0 /\ pc = "idle" /\ net.wire = <<>>
  /\ \/ host.state = "GAME_OVER"
     \/ /\ host.isServing /\ host.servingSide = RIGHT
        /\ host.player2.isServingAnimation
        /\ host.player2.servingProgress \in {1, SERVING_ANIMATION_DURATION \div 2 - 1}

RestartSpaceKey ==
  /\ RestartStops
  /\ GuestSpaceKey
  /\ UNCHANGED ticks

\* the RESTART reaches the host: on its game-over screen, or in the next match
RestartArrives ==
  /\ HostRestart
  /\ ticks' = IF host.state = "GAME_OVER" THEN ticks ELSE ticks + 1

\* the opening of the next match: player 1 walks to the service line
RestartWalk ==
  /\ ticks = 0 /\ last.op = "host.restart" /\ net.wire = <<>>
  /\ KeyPress(1, RightKey)
  /\ UNCHANGED ticks

\* the opening goes on while no RESTART is in flight
RestartOpeningFrame ==
  /\ net.wire = <<>>
  /\ OpeningHostFrame

\* display frames after a RESTART arrived in the match being played
RestartedFrame(dt) ==
  /\ ticks > 0
  /\ HostFrame(dt)

\* the host has just finished a match; the guest has not heard of it yet
InitRestart ==
  /\ host = FinishedMatch(StartOnlineGame(NewGame, TRUE))
  /\ guest = FreshGuest
  /\ channel = <<>> /\ clock = StartClock /\ pc = "idle"
  /\ sounds = <<>> /\ last = NoLast /\ swings = NoSwings
  /\ ballHist = NoBallHist /\ ticks = 0
  /\ net = OnlineNet /\ audio = NoAudio /\ winLose = 0 /\ frame = NoFrame

NextRestart ==
  \/ GameOverFrame
  \/ RestartSpaceKey
  \/ RestartArrives
  \/ RestartWalk
  \/ OpeningServe
  \/ RestartOpeningFrame
  \/ Step
  \/ GuestReceive
  \/ \E dt \in FrameDeltas : RestartedFrame(dt)

SpecRestart == InitRestart /\ [][NextRestart]_vars

\* C32: a serve is launched for the player on the current servingSide: in
\* the direction of that side (vx > 0 for LEFT, vx < 0 for RIGHT), the ball
\* starting where handleServe put it, in that player's hand
ServeLaunchedForServingSide ==
  [][(last'.op = "update" /\ last'.ev.serveDir # 0) =>
       /\ last'.ev.serveDir = IF host'.servingSide = LEFT THEN 1 ELSE -1
       /\ IF host'.servingSide = LEFT THEN host'.ball.vx > 0 ELSE host'.ball.vx < 0
       /\ host'.ball.x = GetBallHandPosition(IF host'.servingSide = LEFT THEN host.player1
                                             ELSE host.player2).x]_vars

\* C35: the host resets the match on a RESTART only in GAME_OVER; a RESTART
\* that arrives in a match being played changes neither score nor the
\* serving side
RestartOnlyInGameOver ==
  [][(last'.op = "host.restart" /\ host.state # "GAME_OVER") =>
       /\ host'.leftScore = host.leftScore /\ host'.rightScore = host.rightScore
       /\ host'.servingSide = host.servingSide]_vars

\* ------------------------------------ SpecBotInput: the decisions of the bot
\* BotInput.update as the rally branch of Game.update calls it, applied to
\* balls and positions of player 2 drawn from small sets; botLastActionTime
\* is the lastActionTime of the BotInput object
MaxBotCalls == 3
AI_REACTION_DELAY == 150 * Millisecond

NoPrediction == [found |-> FALSE, x |-> 0, y |-> 0, time |-> 0]

RECURSIVE PredictBallTrajectory(_, _, _, _, _)
RECURSIVE PredictedAt(_, _, _, _, _)

\* the tests of one iteration of predictBallTrajectory, after the simulated
\* step: the hitting range of the bot, then the ground
PredictedAt(x, y, vx, vy, t) ==
  IF x >= 45000 /\ y >= 20000 /\ y <= 42000
  THEN [found |-> TRUE, x |-> x, y |-> y, time |-> t]
  ELSE IF y >= 45000
  THEN [found |-> TRUE, x |-> x, y |-> 45000, time |-> t]
  ELSE PredictBallTrajectory(x, y, vx, vy, t + 1)

\* predictBallTrajectory from iteration t on: gravity, air resistance, move
PredictBallTrajectory(x, y, vx, vy, t) ==
  IF t >= 300 THEN NoPrediction
  ELSE PredictedAt(x + MulDiv(vx, 98, 100), y + MulDiv(vy + 40, 98, 100),
                   MulDiv(vx, 98, 100), MulDiv(vy + 40, 98, 100), t)

\* shouldHit: "none", or the kind of stroke; chance: Math.random() < 0.2
ShouldHit(playerX, playerY, ballX, ballY, ballVy, chance) ==
  IF ballX < 42000 THEN "none"
  ELSE IF Abs(ballX - playerX) > 7000 \/ Abs(ballY - playerY) > 7000 * 2 THEN "none"
  ELSE IF playerX > 75000 THEN "upward"
  ELSE IF ballY > (playerY - 5800) - 1000 THEN "upward"
  ELSE IF chance \/ ballVy > 800 THEN "upward"
  ELSE "downward"

\* the bot walks toward targetX unless it is within margin of it
BotWalk(distance, margin) ==
  IF Abs(distance) > margin
  THEN IF distance > 0 THEN "right" ELSE "left"
  ELSE "stay"

\* the jump decision; chance: Math.random() < 0.25
BotJumps(prediction, playerX, playerY, chance) ==
  /\ prediction.found
  /\ playerY >= 39000
  /\ prediction.time > 10 /\ prediction.time < 40
  /\ Abs((prediction.x - 2500) - playerX) < 6000
  /\ chance

\* the reaction delay is not waited for
NeverWithinReactionDelay(currentTime, lastActionTime) == FALSE

WithinReactionDelay(currentTime, lastActionTime) ==
  currentTime - lastActionTime < AI_REACTION_DELAY

\* update once it has decided to act: the intents and the new lastActionTime
BotActs(walk, jump, stroke, currentTime, lastActionTime) ==
  [input |-> [left |-> walk = "left", right |-> walk = "right", jump |-> jump,
              hit |-> FALSE, upward |-> stroke = "upward",
              downward |-> stroke = "downward"],
   lastActionTime |-> IF jump \/ stroke # "none" THEN currentTime ELSE lastActionTime]

BotDecides(prediction, playerX, playerY, ballX, ballY, ballVx, ballVy, currentTime, lastActionTime, jumpChance, strokeChance) ==
  BotActs(IF prediction.found THEN BotWalk((prediction.x - 2500) - playerX, 1500)
          ELSE BotWalk((ballX + ballVx * 15) - playerX, 2000),
          BotJumps(prediction, playerX, playerY, jumpChance),
          ShouldHit(playerX, playerY, ballX, ballY, ballVy, strokeChance),
          currentTime, lastActionTime)

\* BotInput.update
BotInputUpdate(lastActionTime, playerX, playerY, ballX, ballY, ballVx, ballVy, netX, currentTime, jumpChance, strokeChance) ==
  IF WithinReactionDelay(currentTime, lastActionTime)
  THEN [input |-> NoInput, lastActionTime |-> lastActionTime]
  ELSE IF ballX > netX \/ ballVx > 0
  THEN BotDecides(PredictBallTrajectory(ballX, ballY, ballVx, ballVy, 0),
                  playerX, playerY, ballX, ballY, ballVx, ballVy,
                  currentTime, lastActionTime, jumpChance, strokeChance)
  ELSE [input |-> NoInput, lastActionTime |-> lastActionTime]

\* balls of a rally: leaving the bot's side, served toward it, within its
\* reach low and high, dropping onto it from high up, above the net
BotBalls ==
  {[x |-> 30000, y |-> 20000, vx |-> -600, vy |-> 0],
   [x |-> 30000, y |-> 20000, vx |-> 900, vy |-> -500],
   [x |-> 62000, y |-> 36000, vx |-> 0, vy |-> 900],
   [x |-> 62000, y |-> 30000, vx |-> -300, vy |-> 200],
   [x |-> 58000, y |-> 5000, vx |-> 100, vy |-> 0],
   [x |-> NET_X, y |-> 25000, vx |-> 0, vy |-> 300]}

\* player 2 near the middle of its court, at the back of it, in a jump
BotPlaces ==
  {[x |-> 60000, y |-> GROUND_Y], [x |-> 76000, y |-> GROUND_Y],
   [x |-> PLAYER2_X, y |-> 35000]}

\* a rally of a match against the bot with the ball at b and player 2 at p
BotRally(g, b, p) ==
  [g EXCEPT !.isServing = FALSE,
            !.ball = [@ EXCEPT !.x = b.x, !.y = b.y, !.vx = b.vx, !.vy = b.vy],
            !.player2 = [@ EXCEPT !.x = p.x, !.y = p.y, !.isOnGround = p.y >= GROUND_Y]]

\* the update of the frame dt after the previous one finds the ball at b and
\* player 2 at p and asks the bot
BotInputCall(b, p, dt, jumpChance, strokeChance) ==
  /\ ticks < MaxBotCalls
  /\ \E r \in {BotInputUpdate(host.botLastActionTime, p.x, p.y, b.x, b.y, b.vx, b.vy,
                              NET_X, clock + dt, jumpChance, strokeChance)} :
       host' = [BotRally(host, b, p) EXCEPT !.player2Input = r.input,
                                            !.botLastActionTime = r.lastActionTime]
  /\ clock' = clock + dt
  /\ last' = [op |-> "BotInput.update", ev |-> NoEvents]
  /\ sounds' = <<>>
  /\ ticks' = ticks + 1
  /\ UNCHANGED <<guest, channel, pc, swings, ballHist, net, audio, winLose, frame>>

InitBotInput ==
  /\ host \in {BotRally(SetGameMode(NewGame, "SINGLE_PLAYER"), b, p) :
                 b \in BotBalls, p \in BotPlaces}
  /\ guest = NewGame /\ channel = <<>> /\ clock = StartClock /\ pc = "idle"
  /\ sounds = <<>> /\ last = NoLast /\ swings = NoSwings
  /\ ballHist = NoBallHist /\ ticks = 0
  /\ net = NoNet /\ audio = NoAudio /\ winLose = 0 /\ frame = NoFrame

NextBotInput ==
  \E b \in BotBalls, p \in BotPlaces, dt \in {FixedTimeStep, 400},
     jumpChance, strokeChance \in BOOLEAN :
    BotInputCall(b, p, dt, jumpChance, strokeChance)

SpecBotInput == InitBotInput /\ [][NextBotInput]_vars

\* C38: after every BotInput.update left and right are not both set, upward
\* and downward are not both set and hit is not set; when less than
\* reactionDelay has passed since the bot's last action, or the ball is
\* neither beyond the net nor moving toward the bot, no intent is set
BotIntentsConsistent ==
  [][last'.op = "BotInput.update" =>
       /\ ~(host'.player2Input.left /\ host'.player2Input.right)
       /\ ~(host'.player2Input.upward /\ host'.player2Input.downward)
       /\ ~host'.player2Input.hit
       /\ clock' - host.botLastActionTime < AI_REACTION_DELAY
            => host'.player2Input = NoInput
       /\ (~(host'.ball.x > NET_X) /\ ~(host'.ball.vx > 0))
            => host'.player2Input = NoInput]_vars

\* the bot has struck, and one frame later, the ball within its reach, it
\* sets no intent
BotWaitsAfterStroke ==
  /\ last.op = "BotInput.update"
  /\ host.botLastActionTime > 0
  /\ clock = host.botLastActionTime + FixedTimeStep
  /\ host.ball.x = 62000 /\ host.player2.x = 60000
  /\ host.player2Input = NoInput

====
